---- MODULE Spec2Model ----
(***************************************************************************)
(* Carrot addressing protocol: enote construction (payment_proposal.cpp)   *)
(* and enote scanning (carrot_enote_scan.cpp), over an abstract group.     *)
(*                                                                         *)
(* The Ed25519 group is modelled as the free module (Z_L)^3 over the three *)
(* independent generators G, T and H: a point is the triple of its         *)
(* coefficients.  An X25519 point is the class {P, -P} of an Ed25519 point *)
(* (the Montgomery u-coordinate forgets the sign), kept as its smaller     *)
(* member.  Byte strings that are XOR-encrypted (amount, payment id, Janus *)
(* anchor) are FieldBits wide and the view tag is ViewTagBits wide.  The   *)
(* hash primitive is a polynomial digest of the transcript, domain         *)
(* separator first.                                                        *)
(***************************************************************************)
EXTENDS Integers, Sequences, FiniteSets, TLC

\* ------------------------------------------------------------------------
\* Bounds of the model
\* ------------------------------------------------------------------------
MaxSeed == 2
MaxAmount == 2
MaxAnchor == 2
MaxContext == 2
MaxPid == 1
MaxIndex == 1
MaxEphemeral == 2
MaxNormal == 2
MaxSelfSend == 2
MaxScalar == 3

\* the low byte of the integers that are serialized is drawn from 0..MaxLowByte
MaxLowByte == 2

FieldBits == 16
ViewTagBits == 3

\* ------------------------------------------------------------------------
\* Scalars and points
\* ------------------------------------------------------------------------
\* order of the prime-order group (scalars are integers mod L)
L == 32749

\* modulus and multiplier of the transcript digest
HashMod == 1048573
HashBase == 1009

G == <<1, 0, 0>>
T == <<0, 1, 0>>
H == <<0, 0, 1>>
Identity == <<0, 0, 0>>

addKeys(P, Q) == <<(P[1] + Q[1]) % L, (P[2] + Q[2]) % L, (P[3] + Q[3]) % L>>

negKey(P) == <<(L - P[1]) % L, (L - P[2]) % L, (L - P[3]) % L>>

subKeys(P, Q) == addKeys(P, negKey(Q))

scalarmultKey(P, k) == <<(k * P[1]) % L, (k * P[2]) % L, (k * P[3]) % L>>

scalarmultBase(k) == scalarmultKey(G, k)

\* C = k G + a H
commit(amount, mask) == addKeys(scalarmultKey(G, mask % L), scalarmultKey(H, amount % L))

\* C = G + a H
zeroCommit(amount) == commit(amount, 1)

\* k1 + k2 * k3 (mod L)
sc_muladd(k2, k3, k1) == (k1 + k2 * k3) % L

PointLeq(P, Q) ==
    \/ P[1] < Q[1]
    \/ P[1] = Q[1] /\ P[2] < Q[2]
    \/ P[1] = Q[1] /\ P[2] = Q[2] /\ P[3] <= Q[3]

\* Ed25519 point -> X25519 point: P and -P have the same u-coordinate
ConvertPointE(P) == IF PointLeq(P, negKey(P)) THEN P ELSE negKey(P)

\* scalar multiplication on the Montgomery curve
x25519_scmul_key(k, U) == ConvertPointE(scalarmultKey(U, k))

\* B: the Ed25519 base point in X25519 coordinates
x25519_base == ConvertPointE(G)

\* ------------------------------------------------------------------------
\* Hash primitives
\* ------------------------------------------------------------------------
DomainSeparators ==
    << "Carrot prove-spend key", "Carrot view-balance secret",
       "Carrot generate-image key", "Carrot incoming view key",
       "Carrot generate-address secret", "Carrot subaddr m", "Carrot subaddr d",
       "d_e", "s_ctx_sr", "k_a", "k_o^g", "k_o^t", "enc_a", "enc_pid", "vt",
       "enc_anchor", "anchor_sp" >>

DomSep(label) == CHOOSE i \in 1..Len(DomainSeparators) : DomainSeparators[i] = label

RECURSIVE Absorb(_, _)
Absorb(h, data) ==
    IF data = <<>> THEN h
    ELSE Absorb((h * HashBase + Head(data) + 1) % HashMod, Tail(data))

\* hash32(label, args...) -> 32 bytes
hash32(label, data) == Absorb(DomSep(label), data)

\* hash_scalar(label, args...) -> scalar mod L
hash_scalar(label, data) == hash32(label, data) % L

\* the leading bytes of a hash, as wide as an encrypted field
Truncate(h) == h % (2 ^ FieldBits)

RECURSIVE XorBits(_, _, _)
XorBits(a, b, n) ==
    IF n = 0 THEN 0
    ELSE (((a % 2) + (b % 2)) % 2) + 2 * XorBits(a \div 2, b \div 2, n - 1)

XOR(a, b) == XorBits(a, b, FieldBits)

\* a 32-byte secret as raw bytes
to_bytes(s) == <<s, 0, 0>>

\* ------------------------------------------------------------------------
\* Core types and enote utilities
\* ------------------------------------------------------------------------
null_payment_id == 0
null_anchor == 0

PAYMENT == "PAYMENT"
CHANGE == "CHANGE"
CarrotEnoteType == {PAYMENT, CHANGE}

EnoteTypeByte(enote_type) == IF enote_type = PAYMENT THEN 0 ELSE 1

\* input_context = "R" || KI_1
make_carrot_input_context(tx_first_key_image) == <<82, tx_first_key_image>>

\* input_context = "C" || block_index
make_carrot_input_context_coinbase(block_index) == <<67, block_index>>

\* d_e = H_n(anchor_norm, input_context, K^j_s, K^j_v, pid)
make_carrot_enote_ephemeral_privkey(anchor_norm, input_context, address_spend_pubkey, address_view_pubkey, payment_id) ==
    hash_scalar("d_e", <<anchor_norm>> \o input_context \o address_spend_pubkey
                         \o address_view_pubkey \o <<payment_id>>)

\* D_e = d_e B
make_carrot_enote_ephemeral_pubkey_cryptonote(enote_ephemeral_privkey) ==
    x25519_scmul_key(enote_ephemeral_privkey, x25519_base)

\* D_e = d_e ConvertPointE(K^j_s)
make_carrot_enote_ephemeral_pubkey_subaddress(enote_ephemeral_privkey, address_spend_pubkey) ==
    x25519_scmul_key(enote_ephemeral_privkey, ConvertPointE(address_spend_pubkey))

\* s_sr = 8 d_e ConvertPointE(K^j_v)
make_carrot_uncontextualized_shared_key_sender(enote_ephemeral_privkey, address_view_pubkey) ==
    x25519_scmul_key((8 * enote_ephemeral_privkey) % L, ConvertPointE(address_view_pubkey))

\* s_sr = 8 k_v D_e
make_carrot_uncontextualized_shared_key_receiver(k_view, enote_ephemeral_pubkey) ==
    x25519_scmul_key((8 * k_view) % L, enote_ephemeral_pubkey)

\* s^ctx_sr = H_32(s_sr, D_e, input_context)
make_carrot_sender_receiver_secret(s_sender_receiver_unctx, enote_ephemeral_pubkey, input_context) ==
    hash32("s_ctx_sr", s_sender_receiver_unctx \o enote_ephemeral_pubkey \o input_context)

\* k_a = H_n(s^ctx_sr, enote_type)
make_carrot_amount_blinding_factor(s_sender_receiver, enote_type) ==
    hash_scalar("k_a", <<s_sender_receiver, EnoteTypeByte(enote_type)>>)

\* k^o_g = H_n("..g..", s^ctx_sr, C_a)
make_carrot_onetime_address_extension_g(s_sender_receiver, amount_commitment) ==
    hash_scalar("k_o^g", <<s_sender_receiver>> \o amount_commitment)

\* k^o_t = H_n("..t..", s^ctx_sr, C_a)
make_carrot_onetime_address_extension_t(s_sender_receiver, amount_commitment) ==
    hash_scalar("k_o^t", <<s_sender_receiver>> \o amount_commitment)

\* K^o_ext = k^o_g G + k^o_t T
make_carrot_onetime_address_extension_pubkey(s_sender_receiver, amount_commitment) ==
    addKeys(scalarmultKey(G, make_carrot_onetime_address_extension_g(s_sender_receiver, amount_commitment)),
            scalarmultKey(T, make_carrot_onetime_address_extension_t(s_sender_receiver, amount_commitment)))

\* Ko = K^j_s + K^o_ext
make_carrot_onetime_address(address_spend_pubkey, s_sender_receiver, amount_commitment) ==
    addKeys(address_spend_pubkey,
            make_carrot_onetime_address_extension_pubkey(s_sender_receiver, amount_commitment))

\* K^j_s = Ko - K^o_ext
recover_address_spend_pubkey(onetime_address, s_sender_receiver, amount_commitment) ==
    subKeys(onetime_address,
            make_carrot_onetime_address_extension_pubkey(s_sender_receiver, amount_commitment))

\* a_enc = a XOR m_a
encrypt_carrot_amount(amount, s_sender_receiver, onetime_address) ==
    XOR(amount, Truncate(hash32("enc_a", <<s_sender_receiver>> \o onetime_address)))

decrypt_carrot_amount(encrypted_amount, s_sender_receiver, onetime_address) ==
    XOR(encrypted_amount, Truncate(hash32("enc_a", <<s_sender_receiver>> \o onetime_address)))

\* pid_enc = pid XOR m_pid
encrypt_legacy_payment_id(payment_id, s_sender_receiver, onetime_address) ==
    XOR(payment_id, Truncate(hash32("enc_pid", <<s_sender_receiver>> \o onetime_address)))

decrypt_legacy_payment_id(encrypted_payment_id, s_sender_receiver, onetime_address) ==
    XOR(encrypted_payment_id, Truncate(hash32("enc_pid", <<s_sender_receiver>> \o onetime_address)))

\* anchor_enc = anchor XOR m_anchor
encrypt_carrot_anchor(anchor, s_sender_receiver, onetime_address) ==
    XOR(anchor, Truncate(hash32("enc_anchor", <<s_sender_receiver>> \o onetime_address)))

decrypt_carrot_anchor(encrypted_anchor, s_sender_receiver, onetime_address) ==
    XOR(encrypted_anchor, Truncate(hash32("enc_anchor", <<s_sender_receiver>> \o onetime_address)))

\* vt = H_3(s_sr || input_context || Ko)
make_carrot_view_tag(s_sender_receiver_unctx, input_context, onetime_address) ==
    hash32("vt", s_sender_receiver_unctx \o input_context \o onetime_address) % (2 ^ ViewTagBits)

test_carrot_view_tag(s_sender_receiver_unctx, input_context, onetime_address, view_tag) ==
    make_carrot_view_tag(s_sender_receiver_unctx, input_context, onetime_address) = view_tag

\* anchor_sp = H_16(D_e, input_context, Ko, k_v, K_s)
make_carrot_janus_anchor_special(enote_ephemeral_pubkey, input_context, onetime_address, k_view, account_spend_pubkey) ==
    Truncate(hash32("anchor_sp", enote_ephemeral_pubkey \o input_context \o onetime_address
                                   \o <<k_view>> \o account_spend_pubkey))

\* Try enote_type PAYMENT, then CHANGE: accept the one whose k_a G + a H is C_a.
try_get_carrot_amount(s_sender_receiver, encrypted_amount, onetime_address, amount_commitment) ==
    LET amount == decrypt_carrot_amount(encrypted_amount, s_sender_receiver, onetime_address)
        k_a_payment == make_carrot_amount_blinding_factor(s_sender_receiver, PAYMENT)
        k_a_change == make_carrot_amount_blinding_factor(s_sender_receiver, CHANGE)
    IN  IF commit(amount, k_a_payment) = amount_commitment
        THEN [ok |-> TRUE, enote_type |-> PAYMENT, amount |-> amount,
              amount_blinding_factor |-> k_a_payment]
        ELSE IF commit(amount, k_a_change) = amount_commitment
        THEN [ok |-> TRUE, enote_type |-> CHANGE, amount |-> amount,
              amount_blinding_factor |-> k_a_change]
        ELSE [ok |-> FALSE, enote_type |-> CHANGE, amount |-> amount,
              amount_blinding_factor |-> k_a_change]

\* Recompute D_e from the nominal anchor and the nominal address: D_e' ?= D_e
verify_carrot_external_janus_protection(nominal_anchor, input_context, nominal_address_spend_pubkey, nominal_address_view_pubkey, is_subaddress, nominal_payment_id, enote_ephemeral_pubkey) ==
    LET nominal_privkey == make_carrot_enote_ephemeral_privkey(nominal_anchor, input_context,
                               nominal_address_spend_pubkey, nominal_address_view_pubkey,
                               nominal_payment_id)
        nominal_pubkey == IF is_subaddress
                          THEN make_carrot_enote_ephemeral_pubkey_subaddress(nominal_privkey,
                                   nominal_address_spend_pubkey)
                          ELSE make_carrot_enote_ephemeral_pubkey_cryptonote(nominal_privkey)
    IN  nominal_pubkey = enote_ephemeral_pubkey

\* Janus verification of an external scan.  The address is a subaddress iff
\* the recovered K^j_s differs from the account spend key.  Passes when D_e
\* is recomputed with the decrypted payment id, or with the null payment id
\* (the payment id is then reported null), or when the nominal anchor is the
\* special anchor of a self-send.
verify_carrot_janus_protection(input_context, onetime_address, k_view, account_spend_pubkey, nominal_address_spend_pubkey, enote_ephemeral_pubkey, nominal_anchor, nominal_payment_id) ==
    LET is_subaddress == nominal_address_spend_pubkey # account_spend_pubkey
        nominal_address_view_pubkey ==
            IF is_subaddress THEN scalarmultKey(nominal_address_spend_pubkey, k_view)
            ELSE scalarmultBase(k_view)
    IN  IF verify_carrot_external_janus_protection(nominal_anchor, input_context,
               nominal_address_spend_pubkey, nominal_address_view_pubkey, is_subaddress,
               nominal_payment_id, enote_ephemeral_pubkey)
        THEN [ok |-> TRUE, payment_id |-> nominal_payment_id]
        ELSE IF verify_carrot_external_janus_protection(nominal_anchor, input_context,
               nominal_address_spend_pubkey, nominal_address_view_pubkey, is_subaddress,
               null_payment_id, enote_ephemeral_pubkey)
        THEN [ok |-> TRUE, payment_id |-> null_payment_id]
        ELSE [ok |-> make_carrot_janus_anchor_special(enote_ephemeral_pubkey, input_context,
                         onetime_address, k_view, account_spend_pubkey) = nominal_anchor,
              payment_id |-> null_payment_id]

\* ------------------------------------------------------------------------
\* Account secrets and addresses
\* ------------------------------------------------------------------------
make_carrot_provespend_key(s_master) == hash_scalar("Carrot prove-spend key", <<s_master>>)

make_carrot_viewbalance_secret(s_master) == hash32("Carrot view-balance secret", <<s_master>>)

make_carrot_generateimage_key(s_view_balance) ==
    hash_scalar("Carrot generate-image key", <<s_view_balance>>)

make_carrot_viewincoming_key(s_view_balance) ==
    hash_scalar("Carrot incoming view key", <<s_view_balance>>)

make_carrot_generateaddress_secret(s_view_balance) ==
    hash32("Carrot generate-address secret", <<s_view_balance>>)

\* K_s = k_gi G + k_ps T
make_carrot_spend_pubkey(k_generate_image, k_prove_spend) ==
    addKeys(scalarmultKey(G, k_generate_image), scalarmultKey(T, k_prove_spend))

mock_carrot_keys(s_master) ==
    LET k_prove_spend == make_carrot_provespend_key(s_master)
        s_view_balance == make_carrot_viewbalance_secret(s_master)
        k_generate_image == make_carrot_generateimage_key(s_view_balance)
        k_view == make_carrot_viewincoming_key(s_view_balance)
        s_generate_address == make_carrot_generateaddress_secret(s_view_balance)
        account_spend_pubkey == make_carrot_spend_pubkey(k_generate_image, k_prove_spend)
    IN  [s_master |-> s_master,
         k_prove_spend |-> k_prove_spend,
         s_view_balance |-> s_view_balance,
         k_generate_image |-> k_generate_image,
         k_view |-> k_view,
         s_generate_address |-> s_generate_address,
         account_spend_pubkey |-> account_spend_pubkey,
         account_view_pubkey |-> scalarmultKey(account_spend_pubkey, k_view),
         main_address_view_pubkey |-> scalarmultBase(k_view)]

make_carrot_index_extension_generator(s_generate_address, j_major, j_minor) ==
    hash_scalar("Carrot subaddr m", <<s_generate_address, j_major, j_minor>>)

make_carrot_subaddress_scalar(account_spend_pubkey, s_address_generator, j_major, j_minor) ==
    hash_scalar("Carrot subaddr d", account_spend_pubkey \o <<s_address_generator, j_major, j_minor>>)

make_carrot_main_address_v1(account_spend_pubkey, primary_address_view_pubkey) ==
    [address_spend_pubkey |-> account_spend_pubkey,
     address_view_pubkey |-> primary_address_view_pubkey,
     is_subaddress |-> FALSE,
     payment_id |-> null_payment_id]

make_carrot_subaddress_v1(account_spend_pubkey, account_view_pubkey, s_generate_address, j_major, j_minor) ==
    LET subaddress_scalar == make_carrot_subaddress_scalar(account_spend_pubkey,
                                 make_carrot_index_extension_generator(s_generate_address,
                                     j_major, j_minor),
                                 j_major, j_minor)
    IN  [address_spend_pubkey |-> scalarmultKey(account_spend_pubkey, subaddress_scalar),
         address_view_pubkey |-> scalarmultKey(account_view_pubkey, subaddress_scalar),
         is_subaddress |-> TRUE,
         payment_id |-> null_payment_id]

make_carrot_integrated_address_v1(account_spend_pubkey, primary_address_view_pubkey, payment_id) ==
    [address_spend_pubkey |-> account_spend_pubkey,
     address_view_pubkey |-> primary_address_view_pubkey,
     is_subaddress |-> FALSE,
     payment_id |-> payment_id]

\* ------------------------------------------------------------------------
\* Payment proposals -> enotes (payment_proposal.cpp)
\* ------------------------------------------------------------------------
\* values of objects the callee has not written
UnsetPoint == <<0 - 1, 0 - 1, 0 - 1>>
UnsetInt == 0 - 1

UnsetEnote ==
    [onetime_address |-> UnsetPoint, amount_commitment |-> UnsetPoint,
     amount_enc |-> UnsetInt, anchor_enc |-> UnsetInt, view_tag |-> UnsetInt,
     enote_ephemeral_pubkey |-> UnsetPoint, tx_first_key_image |-> UnsetInt]

UnsetCoinbaseEnote ==
    [onetime_address |-> UnsetPoint, amount |-> UnsetInt, anchor_enc |-> UnsetInt,
     view_tag |-> UnsetInt, enote_ephemeral_pubkey |-> UnsetPoint, block_index |-> UnsetInt]

UnsetOutputs ==
    [encrypted_payment_id |-> UnsetInt, amount |-> UnsetInt, amount_blinding_factor |-> UnsetInt]

get_enote_ephemeral_privkey(proposal, input_context) ==
    make_carrot_enote_ephemeral_privkey(proposal.randomness, input_context,
        proposal.destination.address_spend_pubkey, proposal.destination.address_view_pubkey,
        proposal.destination.payment_id)

\* get_enote_ephemeral_pubkey with D_e = d_e B for every destination
get_enote_ephemeral_pubkey_ignoring_subaddress(proposal, input_context) ==
    LET enote_ephemeral_privkey == get_enote_ephemeral_privkey(proposal, input_context)
    IN  IF FALSE
        THEN make_carrot_enote_ephemeral_pubkey_subaddress(enote_ephemeral_privkey,
                 proposal.destination.address_spend_pubkey)
        ELSE make_carrot_enote_ephemeral_pubkey_cryptonote(enote_ephemeral_privkey)

get_enote_ephemeral_pubkey(proposal, input_context) ==
    LET enote_ephemeral_privkey == get_enote_ephemeral_privkey(proposal, input_context)
    IN  IF proposal.destination.is_subaddress
        THEN make_carrot_enote_ephemeral_pubkey_subaddress(enote_ephemeral_privkey,
                 proposal.destination.address_spend_pubkey)
        ELSE make_carrot_enote_ephemeral_pubkey_cryptonote(enote_ephemeral_privkey)

\* get_normal_proposal_ecdh_parts with s_sr = 8 d_e ConvertPointE(K^j_s)
get_normal_proposal_ecdh_parts_spend_pubkey(proposal, input_context) ==
    LET enote_ephemeral_privkey == get_enote_ephemeral_privkey(proposal, input_context)
    IN  [enote_ephemeral_pubkey |-> get_enote_ephemeral_pubkey(proposal, input_context),
         s_sender_receiver_unctx |->
             make_carrot_uncontextualized_shared_key_sender(enote_ephemeral_privkey,
                 proposal.destination.address_spend_pubkey)]

get_normal_proposal_ecdh_parts(proposal, input_context) ==
    LET enote_ephemeral_privkey == get_enote_ephemeral_privkey(proposal, input_context)
    IN  [enote_ephemeral_pubkey |-> get_enote_ephemeral_pubkey(proposal, input_context),
         s_sender_receiver_unctx |->
             make_carrot_uncontextualized_shared_key_sender(enote_ephemeral_privkey,
                 proposal.destination.address_view_pubkey)]

\* get_output_proposal_parts that derives k_a also for a coinbase enote
get_output_proposal_parts_derived_mask(s_sender_receiver_unctx, destination_spend_pubkey, payment_id, amount, enote_type, enote_ephemeral_pubkey, input_context, coinbase_amount_commitment) ==
    LET s_sender_receiver == make_carrot_sender_receiver_secret(s_sender_receiver_unctx,
                                 enote_ephemeral_pubkey, input_context)
        amount_blinding_factor ==
            make_carrot_amount_blinding_factor(s_sender_receiver, enote_type)
        amount_commitment == commit(amount, amount_blinding_factor)
        onetime_address == make_carrot_onetime_address(destination_spend_pubkey,
                               s_sender_receiver, amount_commitment)
    IN  [s_sender_receiver |-> s_sender_receiver,
         amount_blinding_factor |-> amount_blinding_factor,
         amount_commitment |-> amount_commitment,
         onetime_address |-> onetime_address,
         encrypted_amount |-> encrypt_carrot_amount(amount, s_sender_receiver, onetime_address),
         encrypted_payment_id |-> encrypt_legacy_payment_id(payment_id, s_sender_receiver,
                                      onetime_address),
         view_tag |-> make_carrot_view_tag(s_sender_receiver_unctx, input_context, onetime_address)]

get_output_proposal_parts(s_sender_receiver_unctx, destination_spend_pubkey, payment_id, amount, enote_type, enote_ephemeral_pubkey, input_context, coinbase_amount_commitment) ==
    LET s_sender_receiver == make_carrot_sender_receiver_secret(s_sender_receiver_unctx,
                                 enote_ephemeral_pubkey, input_context)
        amount_blinding_factor ==
            IF coinbase_amount_commitment THEN 1
            ELSE make_carrot_amount_blinding_factor(s_sender_receiver, enote_type)
        amount_commitment == commit(amount, amount_blinding_factor)
        onetime_address == make_carrot_onetime_address(destination_spend_pubkey,
                               s_sender_receiver, amount_commitment)
    IN  [s_sender_receiver |-> s_sender_receiver,
         amount_blinding_factor |-> amount_blinding_factor,
         amount_commitment |-> amount_commitment,
         onetime_address |-> onetime_address,
         encrypted_amount |-> encrypt_carrot_amount(amount, s_sender_receiver, onetime_address),
         encrypted_payment_id |-> encrypt_legacy_payment_id(payment_id, s_sender_receiver,
                                      onetime_address),
         view_tag |-> make_carrot_view_tag(s_sender_receiver_unctx, input_context, onetime_address)]

\* get_coinbase_output_proposal_v1 without the check of the payment id
get_coinbase_output_proposal_v1_allowing_pid(proposal, block_index) ==
    IF \/ proposal.randomness = null_anchor
       \/ proposal.destination.is_subaddress
    THEN [threw |-> TRUE, enote |-> UnsetCoinbaseEnote]
    ELSE
    LET input_context == make_carrot_input_context_coinbase(block_index)
        ecdh == get_normal_proposal_ecdh_parts(proposal, input_context)
        parts == get_output_proposal_parts(ecdh.s_sender_receiver_unctx,
                     proposal.destination.address_spend_pubkey, null_payment_id,
                     proposal.amount, PAYMENT, ecdh.enote_ephemeral_pubkey, input_context, TRUE)
    IN  [threw |-> FALSE,
         enote |-> [onetime_address |-> parts.onetime_address,
                    amount |-> proposal.amount,
                    anchor_enc |-> encrypt_carrot_anchor(proposal.randomness,
                                       parts.s_sender_receiver, parts.onetime_address),
                    view_tag |-> parts.view_tag,
                    enote_ephemeral_pubkey |-> ecdh.enote_ephemeral_pubkey,
                    block_index |-> block_index]]

\* Each constructor yields [threw, enote, outputs]: the caller's output
\* objects after the call.  When it throws, none of them has been written.
get_coinbase_output_proposal_v1(proposal, block_index) ==
    IF \/ proposal.randomness = null_anchor
       \/ proposal.destination.is_subaddress
       \/ proposal.destination.payment_id # null_payment_id
    THEN [threw |-> TRUE, enote |-> UnsetCoinbaseEnote]
    ELSE
    LET input_context == make_carrot_input_context_coinbase(block_index)
        ecdh == get_normal_proposal_ecdh_parts(proposal, input_context)
        parts == get_output_proposal_parts(ecdh.s_sender_receiver_unctx,
                     proposal.destination.address_spend_pubkey, null_payment_id,
                     proposal.amount, PAYMENT, ecdh.enote_ephemeral_pubkey, input_context, TRUE)
    IN  [threw |-> FALSE,
         enote |-> [onetime_address |-> parts.onetime_address,
                    amount |-> proposal.amount,
                    anchor_enc |-> encrypt_carrot_anchor(proposal.randomness,
                                       parts.s_sender_receiver, parts.onetime_address),
                    view_tag |-> parts.view_tag,
                    enote_ephemeral_pubkey |-> ecdh.enote_ephemeral_pubkey,
                    block_index |-> block_index]]

\* get_output_proposal_normal_v1 that encrypts the null payment id, as the coinbase path does
get_output_proposal_normal_v1_null_pid(proposal, tx_first_key_image) ==
    IF proposal.randomness = null_anchor
    THEN [threw |-> TRUE, enote |-> UnsetEnote, outputs |-> UnsetOutputs]
    ELSE
    LET input_context == make_carrot_input_context(tx_first_key_image)
        ecdh == get_normal_proposal_ecdh_parts(proposal, input_context)
        parts == get_output_proposal_parts(ecdh.s_sender_receiver_unctx,
                     proposal.destination.address_spend_pubkey,
                     null_payment_id,
                     proposal.amount, PAYMENT, ecdh.enote_ephemeral_pubkey, input_context, FALSE)
    IN  [threw |-> FALSE,
         enote |-> [onetime_address |-> parts.onetime_address,
                    amount_commitment |-> parts.amount_commitment,
                    amount_enc |-> parts.encrypted_amount,
                    anchor_enc |-> encrypt_carrot_anchor(proposal.randomness,
                                       parts.s_sender_receiver, parts.onetime_address),
                    view_tag |-> parts.view_tag,
                    enote_ephemeral_pubkey |-> ecdh.enote_ephemeral_pubkey,
                    tx_first_key_image |-> tx_first_key_image],
         outputs |-> [encrypted_payment_id |-> parts.encrypted_payment_id,
                      amount |-> proposal.amount,
                      amount_blinding_factor |-> parts.amount_blinding_factor]]

get_output_proposal_normal_v1(proposal, tx_first_key_image) ==
    IF proposal.randomness = null_anchor
    THEN [threw |-> TRUE, enote |-> UnsetEnote, outputs |-> UnsetOutputs]
    ELSE
    LET input_context == make_carrot_input_context(tx_first_key_image)
        ecdh == get_normal_proposal_ecdh_parts(proposal, input_context)
        parts == get_output_proposal_parts(ecdh.s_sender_receiver_unctx,
                     proposal.destination.address_spend_pubkey,
                     proposal.destination.payment_id,
                     proposal.amount, PAYMENT, ecdh.enote_ephemeral_pubkey, input_context, FALSE)
    IN  [threw |-> FALSE,
         enote |-> [onetime_address |-> parts.onetime_address,
                    amount_commitment |-> parts.amount_commitment,
                    amount_enc |-> parts.encrypted_amount,
                    anchor_enc |-> encrypt_carrot_anchor(proposal.randomness,
                                       parts.s_sender_receiver, parts.onetime_address),
                    view_tag |-> parts.view_tag,
                    enote_ephemeral_pubkey |-> ecdh.enote_ephemeral_pubkey,
                    tx_first_key_image |-> tx_first_key_image],
         outputs |-> [encrypted_payment_id |-> parts.encrypted_payment_id,
                      amount |-> proposal.amount,
                      amount_blinding_factor |-> parts.amount_blinding_factor]]

\* get_output_proposal_special_v1 that stores the special anchor unencrypted
get_output_proposal_special_v1_plain_anchor(proposal, k_view, primary_address_spend_pubkey, tx_first_key_image) ==
    LET input_context == make_carrot_input_context(tx_first_key_image)
        s_sender_receiver_unctx ==
            make_carrot_uncontextualized_shared_key_receiver(k_view, proposal.enote_ephemeral_pubkey)
        parts == get_output_proposal_parts(s_sender_receiver_unctx,
                     proposal.destination_address_spend_pubkey, null_payment_id,
                     proposal.amount, proposal.enote_type, proposal.enote_ephemeral_pubkey,
                     input_context, FALSE)
        janus_anchor_special ==
            make_carrot_janus_anchor_special(proposal.enote_ephemeral_pubkey, input_context,
                parts.onetime_address, k_view, primary_address_spend_pubkey)
    IN  [threw |-> FALSE,
         enote |-> [onetime_address |-> parts.onetime_address,
                    amount_commitment |-> parts.amount_commitment,
                    amount_enc |-> parts.encrypted_amount,
                    anchor_enc |-> janus_anchor_special,
                    view_tag |-> parts.view_tag,
                    enote_ephemeral_pubkey |-> proposal.enote_ephemeral_pubkey,
                    tx_first_key_image |-> tx_first_key_image],
         outputs |-> [encrypted_payment_id |-> UnsetInt,
                      amount |-> proposal.amount,
                      amount_blinding_factor |-> parts.amount_blinding_factor]]

\* get_output_proposal_special_v1 that emits a D_e derived from k_v
get_output_proposal_special_v1_rederived_ephemeral_pubkey(proposal, k_view, primary_address_spend_pubkey, tx_first_key_image) ==
    LET input_context == make_carrot_input_context(tx_first_key_image)
        s_sender_receiver_unctx ==
            make_carrot_uncontextualized_shared_key_receiver(k_view, proposal.enote_ephemeral_pubkey)
        parts == get_output_proposal_parts(s_sender_receiver_unctx,
                     proposal.destination_address_spend_pubkey, null_payment_id,
                     proposal.amount, proposal.enote_type, proposal.enote_ephemeral_pubkey,
                     input_context, FALSE)
        janus_anchor_special ==
            make_carrot_janus_anchor_special(proposal.enote_ephemeral_pubkey, input_context,
                parts.onetime_address, k_view, primary_address_spend_pubkey)
    IN  [threw |-> FALSE,
         enote |-> [onetime_address |-> parts.onetime_address,
                    amount_commitment |-> parts.amount_commitment,
                    amount_enc |-> parts.encrypted_amount,
                    anchor_enc |-> encrypt_carrot_anchor(janus_anchor_special,
                                       parts.s_sender_receiver, parts.onetime_address),
                    view_tag |-> parts.view_tag,
                    enote_ephemeral_pubkey |->
                        make_carrot_enote_ephemeral_pubkey_cryptonote(k_view),
                    tx_first_key_image |-> tx_first_key_image],
         outputs |-> [encrypted_payment_id |-> UnsetInt,
                      amount |-> proposal.amount,
                      amount_blinding_factor |-> parts.amount_blinding_factor]]

get_output_proposal_special_v1(proposal, k_view, primary_address_spend_pubkey, tx_first_key_image) ==
    LET input_context == make_carrot_input_context(tx_first_key_image)
        s_sender_receiver_unctx ==
            make_carrot_uncontextualized_shared_key_receiver(k_view, proposal.enote_ephemeral_pubkey)
        parts == get_output_proposal_parts(s_sender_receiver_unctx,
                     proposal.destination_address_spend_pubkey, null_payment_id,
                     proposal.amount, proposal.enote_type, proposal.enote_ephemeral_pubkey,
                     input_context, FALSE)
        janus_anchor_special ==
            make_carrot_janus_anchor_special(proposal.enote_ephemeral_pubkey, input_context,
                parts.onetime_address, k_view, primary_address_spend_pubkey)
    IN  [threw |-> FALSE,
         enote |-> [onetime_address |-> parts.onetime_address,
                    amount_commitment |-> parts.amount_commitment,
                    amount_enc |-> parts.encrypted_amount,
                    anchor_enc |-> encrypt_carrot_anchor(janus_anchor_special,
                                       parts.s_sender_receiver, parts.onetime_address),
                    view_tag |-> parts.view_tag,
                    enote_ephemeral_pubkey |-> proposal.enote_ephemeral_pubkey,
                    tx_first_key_image |-> tx_first_key_image],
         outputs |-> [encrypted_payment_id |-> UnsetInt,
                      amount |-> proposal.amount,
                      amount_blinding_factor |-> parts.amount_blinding_factor]]

\* get_output_proposal_internal_v1 that always derives k_a for enote type PAYMENT
get_output_proposal_internal_v1_payment_type(proposal, s_view_balance, tx_first_key_image, random_anchor) ==
    LET input_context == make_carrot_input_context(tx_first_key_image)
        parts == get_output_proposal_parts(to_bytes(s_view_balance),
                     proposal.destination_address_spend_pubkey, null_payment_id,
                     proposal.amount, PAYMENT, proposal.enote_ephemeral_pubkey,
                     input_context, FALSE)
    IN  [threw |-> FALSE,
         enote |-> [onetime_address |-> parts.onetime_address,
                    amount_commitment |-> parts.amount_commitment,
                    amount_enc |-> parts.encrypted_amount,
                    anchor_enc |-> random_anchor,
                    view_tag |-> parts.view_tag,
                    enote_ephemeral_pubkey |-> proposal.enote_ephemeral_pubkey,
                    tx_first_key_image |-> tx_first_key_image],
         outputs |-> [encrypted_payment_id |-> UnsetInt,
                      amount |-> proposal.amount,
                      amount_blinding_factor |-> parts.amount_blinding_factor]]

\* get_output_proposal_internal_v1 that derives the secret from the incoming
\* view key of the account, as the special self-send does
get_output_proposal_internal_v1_view_incoming(proposal, s_view_balance, tx_first_key_image, random_anchor) ==
    get_output_proposal_special_v1(proposal, make_carrot_viewincoming_key(s_view_balance),
        proposal.destination_address_spend_pubkey, tx_first_key_image)

\* gen_janus_anchor() is the argument random_anchor
get_output_proposal_internal_v1(proposal, s_view_balance, tx_first_key_image, random_anchor) ==
    LET input_context == make_carrot_input_context(tx_first_key_image)
        parts == get_output_proposal_parts(to_bytes(s_view_balance),
                     proposal.destination_address_spend_pubkey, null_payment_id,
                     proposal.amount, proposal.enote_type, proposal.enote_ephemeral_pubkey,
                     input_context, FALSE)
    IN  [threw |-> FALSE,
         enote |-> [onetime_address |-> parts.onetime_address,
                    amount_commitment |-> parts.amount_commitment,
                    amount_enc |-> parts.encrypted_amount,
                    anchor_enc |-> random_anchor,
                    view_tag |-> parts.view_tag,
                    enote_ephemeral_pubkey |-> proposal.enote_ephemeral_pubkey,
                    tx_first_key_image |-> tx_first_key_image],
         outputs |-> [encrypted_payment_id |-> UnsetInt,
                      amount |-> proposal.amount,
                      amount_blinding_factor |-> parts.amount_blinding_factor]]

\* ------------------------------------------------------------------------
\* The locals that hold derived secrets, as a constructor leaves them in
\* memory when it exits
\* ------------------------------------------------------------------------
ZeroBytes == <<0, 0, 0>>

\* the function has no such local, or exited before declaring it
NoLocal == [declared |-> FALSE, bytes |-> ZeroBytes]

\* a local guarded by auto_wiper: the scope leave handler runs memwipe on it
\* when the scope is left, by return or by exception
auto_wiper(obj) == [declared |-> TRUE, bytes |-> ZeroBytes]

\* a local without a wiper keeps its bytes
unwiped_local(obj) == [declared |-> TRUE, bytes |-> obj]

NoFrame == [s_sender_receiver_unctx |-> NoLocal, s_sender_receiver |-> NoLocal]

\* get_coinbase_output_proposal_v1: both secrets are declared with a wiper,
\* after the sanity checks
get_coinbase_output_proposal_v1_frame(proposal, block_index) ==
    IF get_coinbase_output_proposal_v1(proposal, block_index).threw THEN NoFrame
    ELSE LET input_context == make_carrot_input_context_coinbase(block_index)
             ecdh_parts == get_normal_proposal_ecdh_parts(proposal, input_context)
         IN  [s_sender_receiver_unctx |-> auto_wiper(ecdh_parts.s_sender_receiver_unctx),
              s_sender_receiver |->
                  auto_wiper(to_bytes(make_carrot_sender_receiver_secret(
                      ecdh_parts.s_sender_receiver_unctx, ecdh_parts.enote_ephemeral_pubkey,
                      input_context)))]

\* get_output_proposal_normal_v1: both secrets are declared with a wiper,
\* after the sanity check
get_output_proposal_normal_v1_frame(proposal, tx_first_key_image) ==
    IF get_output_proposal_normal_v1(proposal, tx_first_key_image).threw THEN NoFrame
    ELSE LET input_context == make_carrot_input_context(tx_first_key_image)
             ecdh_parts == get_normal_proposal_ecdh_parts(proposal, input_context)
         IN  [s_sender_receiver_unctx |-> auto_wiper(ecdh_parts.s_sender_receiver_unctx),
              s_sender_receiver |->
                  auto_wiper(to_bytes(make_carrot_sender_receiver_secret(
                      ecdh_parts.s_sender_receiver_unctx, ecdh_parts.enote_ephemeral_pubkey,
                      input_context)))]

\* get_output_proposal_special_v1: s_sender_receiver_unctx is declared
\* without a wiper, s_sender_receiver with one
get_output_proposal_special_v1_frame(proposal, k_view, primary_address_spend_pubkey, tx_first_key_image) ==
    LET input_context == make_carrot_input_context(tx_first_key_image)
        s_sender_receiver_unctx ==
            make_carrot_uncontextualized_shared_key_receiver(k_view,
                proposal.enote_ephemeral_pubkey)
    IN  [s_sender_receiver_unctx |-> unwiped_local(s_sender_receiver_unctx),
         s_sender_receiver |->
             auto_wiper(to_bytes(make_carrot_sender_receiver_secret(s_sender_receiver_unctx,
                 proposal.enote_ephemeral_pubkey, input_context)))]

\* get_output_proposal_internal_v1: the shared secret is the caller's s_vb;
\* s_sender_receiver is declared with a wiper
get_output_proposal_internal_v1_frame(proposal, s_view_balance, tx_first_key_image) ==
    LET input_context == make_carrot_input_context(tx_first_key_image)
    IN  [s_sender_receiver_unctx |-> NoLocal,
         s_sender_receiver |->
             auto_wiper(to_bytes(make_carrot_sender_receiver_secret(to_bytes(s_view_balance),
                 proposal.enote_ephemeral_pubkey, input_context)))]

\* ------------------------------------------------------------------------
\* Enote scanning (carrot_enote_scan.cpp)
\* ------------------------------------------------------------------------
UnsetType == "UNSET"

\* the caller's output objects before a scanner has written any of them
UnsetScan ==
    [matched |-> FALSE,
     sender_extension_g |-> UnsetInt, sender_extension_t |-> UnsetInt,
     address_spend_pubkey |-> UnsetPoint, amount |-> UnsetInt,
     amount_blinding_factor |-> UnsetInt, payment_id |-> UnsetInt,
     enote_type |-> UnsetType, nominal_janus_anchor |-> UnsetInt]

\* encrypted_payment_id is a std::optional: NoPid is std::nullopt
NoPid == 0 - 1

\* try_scan_carrot_non_coinbase_no_janus that derives k^o_t with the k^o_g function
try_scan_carrot_non_coinbase_no_janus_extension_g_twice(enote, encrypted_payment_id, input_context, s_sender_receiver_unctx) ==
    IF ~test_carrot_view_tag(s_sender_receiver_unctx, input_context, enote.onetime_address,
                             enote.view_tag)
    THEN UnsetScan
    ELSE
    LET s_sender_receiver == make_carrot_sender_receiver_secret(s_sender_receiver_unctx,
                                 enote.enote_ephemeral_pubkey, input_context)
        amt == try_get_carrot_amount(s_sender_receiver, enote.amount_enc, enote.onetime_address,
                                     enote.amount_commitment)
    IN  IF ~amt.ok
        THEN [UnsetScan EXCEPT !.enote_type = amt.enote_type, !.amount = amt.amount,
                               !.amount_blinding_factor = amt.amount_blinding_factor]
        ELSE [matched |-> TRUE,
              sender_extension_g |->
                  make_carrot_onetime_address_extension_g(s_sender_receiver, enote.amount_commitment),
              sender_extension_t |->
                  make_carrot_onetime_address_extension_g(s_sender_receiver, enote.amount_commitment),
              address_spend_pubkey |->
                  recover_address_spend_pubkey(enote.onetime_address, s_sender_receiver,
                                               enote.amount_commitment),
              amount |-> amt.amount,
              amount_blinding_factor |-> amt.amount_blinding_factor,
              payment_id |->
                  IF encrypted_payment_id # NoPid
                  THEN decrypt_legacy_payment_id(encrypted_payment_id, s_sender_receiver,
                                                 enote.onetime_address)
                  ELSE null_payment_id,
              enote_type |-> amt.enote_type,
              nominal_janus_anchor |->
                  decrypt_carrot_anchor(enote.anchor_enc, s_sender_receiver, enote.onetime_address)]

\* try_scan_carrot_non_coinbase_no_janus that tests the view tag last
try_scan_carrot_non_coinbase_no_janus_late_view_tag(enote, encrypted_payment_id, input_context, s_sender_receiver_unctx) ==
    LET s_sender_receiver == make_carrot_sender_receiver_secret(s_sender_receiver_unctx,
                                 enote.enote_ephemeral_pubkey, input_context)
        amt == try_get_carrot_amount(s_sender_receiver, enote.amount_enc, enote.onetime_address,
                                     enote.amount_commitment)
        written == [UnsetScan EXCEPT !.enote_type = amt.enote_type, !.amount = amt.amount,
                                     !.amount_blinding_factor = amt.amount_blinding_factor]
    IN  IF ~amt.ok THEN written
        ELSE [written EXCEPT
                 !.matched = test_carrot_view_tag(s_sender_receiver_unctx, input_context,
                                 enote.onetime_address, enote.view_tag)]

try_scan_carrot_non_coinbase_no_janus(enote, encrypted_payment_id, input_context, s_sender_receiver_unctx) ==
    IF ~test_carrot_view_tag(s_sender_receiver_unctx, input_context, enote.onetime_address,
                             enote.view_tag)
    THEN UnsetScan
    ELSE
    LET s_sender_receiver == make_carrot_sender_receiver_secret(s_sender_receiver_unctx,
                                 enote.enote_ephemeral_pubkey, input_context)
        amt == try_get_carrot_amount(s_sender_receiver, enote.amount_enc, enote.onetime_address,
                                     enote.amount_commitment)
    IN  IF ~amt.ok
        THEN [UnsetScan EXCEPT !.enote_type = amt.enote_type, !.amount = amt.amount,
                               !.amount_blinding_factor = amt.amount_blinding_factor]
        ELSE [matched |-> TRUE,
              sender_extension_g |->
                  make_carrot_onetime_address_extension_g(s_sender_receiver, enote.amount_commitment),
              sender_extension_t |->
                  make_carrot_onetime_address_extension_t(s_sender_receiver, enote.amount_commitment),
              address_spend_pubkey |->
                  recover_address_spend_pubkey(enote.onetime_address, s_sender_receiver,
                                               enote.amount_commitment),
              amount |-> amt.amount,
              amount_blinding_factor |-> amt.amount_blinding_factor,
              payment_id |->
                  IF encrypted_payment_id # NoPid
                  THEN decrypt_legacy_payment_id(encrypted_payment_id, s_sender_receiver,
                                                 enote.onetime_address)
                  ELSE null_payment_id,
              enote_type |-> amt.enote_type,
              nominal_janus_anchor |->
                  decrypt_carrot_anchor(enote.anchor_enc, s_sender_receiver, enote.onetime_address)]

\* try_scan_carrot_coinbase_enote that returns true when K^j_s differs from K_s
try_scan_carrot_coinbase_enote_accepting_subaddress(enote, s_sender_receiver_unctx, k_view, account_spend_pubkey) ==
    LET input_context == make_carrot_input_context_coinbase(enote.block_index)
    IN
    IF ~test_carrot_view_tag(s_sender_receiver_unctx, input_context, enote.onetime_address,
                             enote.view_tag)
    THEN UnsetScan
    ELSE
    LET s_sender_receiver == make_carrot_sender_receiver_secret(s_sender_receiver_unctx,
                                 enote.enote_ephemeral_pubkey, input_context)
        implied_amount_commitment == zeroCommit(enote.amount)
        address_spend_pubkey == recover_address_spend_pubkey(enote.onetime_address,
                                    s_sender_receiver, implied_amount_commitment)
        nominal_anchor == decrypt_carrot_anchor(enote.anchor_enc, s_sender_receiver,
                                                enote.onetime_address)
        written == [UnsetScan EXCEPT
                       !.sender_extension_g =
                           make_carrot_onetime_address_extension_g(s_sender_receiver,
                                                                   implied_amount_commitment),
                       !.sender_extension_t =
                           make_carrot_onetime_address_extension_t(s_sender_receiver,
                                                                   implied_amount_commitment),
                       !.address_spend_pubkey = address_spend_pubkey]
    IN  IF address_spend_pubkey # account_spend_pubkey
        THEN [written EXCEPT !.matched = TRUE]
        ELSE [written EXCEPT
                 !.nominal_janus_anchor = nominal_anchor,
                 !.matched = verify_carrot_janus_protection(input_context, enote.onetime_address,
                                 k_view, account_spend_pubkey, address_spend_pubkey,
                                 enote.enote_ephemeral_pubkey, nominal_anchor,
                                 null_payment_id).ok]

try_scan_carrot_coinbase_enote(enote, s_sender_receiver_unctx, k_view, account_spend_pubkey) ==
    LET input_context == make_carrot_input_context_coinbase(enote.block_index)
    IN
    IF ~test_carrot_view_tag(s_sender_receiver_unctx, input_context, enote.onetime_address,
                             enote.view_tag)
    THEN UnsetScan
    ELSE
    LET s_sender_receiver == make_carrot_sender_receiver_secret(s_sender_receiver_unctx,
                                 enote.enote_ephemeral_pubkey, input_context)
        implied_amount_commitment == zeroCommit(enote.amount)
        address_spend_pubkey == recover_address_spend_pubkey(enote.onetime_address,
                                    s_sender_receiver, implied_amount_commitment)
        nominal_anchor == decrypt_carrot_anchor(enote.anchor_enc, s_sender_receiver,
                                                enote.onetime_address)
        written == [UnsetScan EXCEPT
                       !.sender_extension_g =
                           make_carrot_onetime_address_extension_g(s_sender_receiver,
                                                                   implied_amount_commitment),
                       !.sender_extension_t =
                           make_carrot_onetime_address_extension_t(s_sender_receiver,
                                                                   implied_amount_commitment),
                       !.address_spend_pubkey = address_spend_pubkey]
    IN  IF address_spend_pubkey # account_spend_pubkey
        THEN written
        ELSE [written EXCEPT
                 !.nominal_janus_anchor = nominal_anchor,
                 !.matched = verify_carrot_janus_protection(input_context, enote.onetime_address,
                                 k_view, account_spend_pubkey, address_spend_pubkey,
                                 enote.enote_ephemeral_pubkey, nominal_anchor,
                                 null_payment_id).ok]

\* try_scan_carrot_enote_external that returns true when the Janus check fails
try_scan_carrot_enote_external_ignoring_janus(enote, encrypted_payment_id, s_sender_receiver_unctx, k_view, account_spend_pubkey) ==
    LET input_context == make_carrot_input_context(enote.tx_first_key_image)
        core == try_scan_carrot_non_coinbase_no_janus(enote, encrypted_payment_id, input_context,
                                                      s_sender_receiver_unctx)
    IN  IF ~core.matched
        THEN core
        ELSE LET janus == verify_carrot_janus_protection(input_context, enote.onetime_address,
                              k_view, account_spend_pubkey, core.address_spend_pubkey,
                              enote.enote_ephemeral_pubkey, core.nominal_janus_anchor,
                              core.payment_id)
             IN  [core EXCEPT !.matched = TRUE, !.payment_id = janus.payment_id]

try_scan_carrot_enote_external(enote, encrypted_payment_id, s_sender_receiver_unctx, k_view, account_spend_pubkey) ==
    LET input_context == make_carrot_input_context(enote.tx_first_key_image)
        core == try_scan_carrot_non_coinbase_no_janus(enote, encrypted_payment_id, input_context,
                                                      s_sender_receiver_unctx)
    IN  IF ~core.matched
        THEN core
        ELSE LET janus == verify_carrot_janus_protection(input_context, enote.onetime_address,
                              k_view, account_spend_pubkey, core.address_spend_pubkey,
                              enote.enote_ephemeral_pubkey, core.nominal_janus_anchor,
                              core.payment_id)
             IN  [core EXCEPT !.matched = janus.ok, !.payment_id = janus.payment_id]

try_scan_carrot_enote_internal(enote, s_view_balance) ==
    LET input_context == make_carrot_input_context(enote.tx_first_key_image)
        core == try_scan_carrot_non_coinbase_no_janus(enote, NoPid, input_context,
                                                      to_bytes(s_view_balance))
    IN  [core EXCEPT !.payment_id = UnsetInt]

\* Ko ?= (k^o_g + k^j_subscal k_gi) G + (k^o_t + k^j_subscal k_ps) T
can_open_fcmp_onetime_address(k_prove_spend, k_generate_image, subaddr_scalar, sender_extension_g, sender_extension_t, onetime_address) ==
    LET combined_g == sc_muladd(subaddr_scalar, k_generate_image, sender_extension_g)
        combined_t == sc_muladd(subaddr_scalar, k_prove_spend, sender_extension_t)
    IN  addKeys(scalarmultKey(G, combined_g), scalarmultKey(T, combined_t)) = onetime_address

\* ------------------------------------------------------------------------
\* Output set finalization (output_set_finalization.cpp)
\* ------------------------------------------------------------------------
\* The limits of a transaction's output set.  CARROT_MAX_TX_OUTPUTS is
\* implementation-defined; the model takes the smallest value that leaves
\* room for a set of more than two outputs.
CARROT_MIN_TX_OUTPUTS == 2
CARROT_MAX_TX_OUTPUTS == 3

\* a device pointer that is nullptr
NullDevice == UnsetInt

\* memcmp(a, b) < 0 on the bytes of two keys
PointLess(a, b) == a # b /\ PointLeq(a, b)

\* the bytes that each comparator hands to memcmp, element by element
sort_by_randomness(s) == [i \in DOMAIN s |-> <<s[i].randomness, 0, 0>>]

sort_by_ephemeral_pubkey(s) == [i \in DOMAIN s |-> s[i].enote.enote_ephemeral_pubkey]

\* operator< of RCTOutputEnoteProposal: by one-time address
sort_by_onetime_address(s) == [i \in DOMAIN s |-> s[i].enote.onetime_address]

\* std::sort leaves equal elements in an unspecified order: the orders it may
\* produce are the permutations p for which the bytes b[p[1]], b[p[2]], ...
\* do not decrease
SortedOrders(b) ==
    {p \in Permutations(1..Len(b)) :
        \A i \in 1..(Len(b) - 1) : ~PointLess(b[p[i + 1]], b[p[i]])}

Permute(s, p) == [i \in 1..Len(s) |-> s[p[i]]]

is_sorted_and_unique(b) == \A i \in 1..(Len(b) - 1) : PointLess(b[i], b[i + 1])

\* the element that tools::add_element appends, before a constructor fills it
UnsetOutputEnoteProposal ==
    [enote |-> UnsetEnote, amount |-> UnsetInt, amount_blinding_factor |-> UnsetInt]

\* RCTOutputEnoteProposal filled by a constructor
OutputEnoteProposal(r) ==
    [enote |-> r.enote, amount |-> r.outputs.amount,
     amount_blinding_factor |-> r.outputs.amount_blinding_factor]

\* add_normal_enote that publishes the payment id of every proposal in turn
add_normal_enote_last_payment_id(built, proposal, is_first, tx_first_key_image) ==
    CHOOSE next \in
        {IF r.threw
         THEN [built EXCEPT !.threw = TRUE, !.enotes = Append(@, UnsetOutputEnoteProposal)]
         ELSE [built EXCEPT !.enotes = Append(@, OutputEnoteProposal(r)),
                            !.encrypted_payment_id = r.outputs.encrypted_payment_id]
         : r \in {get_output_proposal_normal_v1(proposal, tx_first_key_image)}} : TRUE

\* One pass of the loop over the normal payment proposals.  built is what
\* the call has produced so far: [threw, enotes, encrypted_payment_id].  The
\* element is appended before the constructor runs, and the payment id of the
\* first proposal, or of an integrated one, is published.
add_normal_enote(built, proposal, is_first, tx_first_key_image) ==
    CHOOSE next \in
        {IF r.threw
         THEN [built EXCEPT !.threw = TRUE, !.enotes = Append(@, UnsetOutputEnoteProposal)]
         ELSE [built EXCEPT !.enotes = Append(@, OutputEnoteProposal(r)),
                            !.encrypted_payment_id =
                                IF is_first \/ proposal.destination.payment_id # null_payment_id
                                THEN r.outputs.encrypted_payment_id ELSE @]
         : r \in {get_output_proposal_normal_v1(proposal, tx_first_key_image)}} : TRUE

RECURSIVE construct_normal_enotes(_, _, _, _)
construct_normal_enotes(built, normal_payment_proposals, i, tx_first_key_image) ==
    IF built.threw \/ i > Len(normal_payment_proposals) THEN built
    ELSE CHOOSE done \in
        {construct_normal_enotes(next, normal_payment_proposals, i + 1, tx_first_key_image)
         : next \in {add_normal_enote(built, normal_payment_proposals[i], i = 1,
                                      tx_first_key_image)}} : TRUE

\* One pass of the loop over the self-send payment proposals: an internal
\* enote when a view-balance device is given, else a special enote when a
\* view-incoming device is given, else the call throws.
add_selfsend_enote(built, proposal, s_view_balance_dev, k_view_dev, account_spend_pubkey, tx_first_key_image, random_anchor) ==
    IF s_view_balance_dev # NullDevice
    THEN CHOOSE next \in
        {[built EXCEPT !.threw = r.threw, !.enotes = Append(@, OutputEnoteProposal(r))]
         : r \in {get_output_proposal_internal_v1(proposal, s_view_balance_dev,
                      tx_first_key_image, random_anchor)}} : TRUE
    ELSE IF k_view_dev # NullDevice
    THEN CHOOSE next \in
        {[built EXCEPT !.threw = r.threw, !.enotes = Append(@, OutputEnoteProposal(r))]
         : r \in {get_output_proposal_special_v1(proposal, k_view_dev, account_spend_pubkey,
                      tx_first_key_image)}} : TRUE
    ELSE [built EXCEPT !.threw = TRUE]

RECURSIVE construct_selfsend_enotes(_, _, _, _, _, _, _, _)
construct_selfsend_enotes(built, selfsend_payment_proposals, i, s_view_balance_dev, k_view_dev, account_spend_pubkey, tx_first_key_image, random_anchor) ==
    IF built.threw \/ i > Len(selfsend_payment_proposals) THEN built
    ELSE CHOOSE done \in
        {construct_selfsend_enotes(next, selfsend_payment_proposals, i + 1, s_view_balance_dev,
             k_view_dev, account_spend_pubkey, tx_first_key_image, random_anchor)
         : next \in {add_selfsend_enote(built, selfsend_payment_proposals[i], s_view_balance_dev,
                         k_view_dev, account_spend_pubkey, tx_first_key_image,
                         random_anchor)}} : TRUE

\* the end of the call without the rule on the D_e of the set
sort_output_enote_proposals_any_ephemeral_pubkeys(built, num_proposals) ==
    UNION {
        {[threw |-> FALSE, crashed |-> FALSE,
          output_enote_proposals_out |-> Permute(by_ephemeral_pubkey, q),
          encrypted_payment_id_out |-> built.encrypted_payment_id]
         : q \in SortedOrders(sort_by_onetime_address(by_ephemeral_pubkey))}
        : by_ephemeral_pubkey \in
            {Permute(built.enotes, p) : p \in SortedOrders(sort_by_ephemeral_pubkey(built.enotes))}}

\* the end of the call, emptying the outputs when the rule on D_e fails
sort_output_enote_proposals_clearing_on_failure(built, num_proposals) ==
    UNION {
        IF \/ num_proposals = 2
              /\ is_sorted_and_unique(sort_by_ephemeral_pubkey(by_ephemeral_pubkey))
           \/ num_proposals # 2
              /\ ~is_sorted_and_unique(sort_by_ephemeral_pubkey(by_ephemeral_pubkey))
        THEN {[threw |-> TRUE, crashed |-> FALSE,
               output_enote_proposals_out |-> <<>>,
               encrypted_payment_id_out |-> null_payment_id]}
        ELSE {[threw |-> FALSE, crashed |-> FALSE,
               output_enote_proposals_out |-> Permute(by_ephemeral_pubkey, q),
               encrypted_payment_id_out |-> built.encrypted_payment_id]
              : q \in SortedOrders(sort_by_onetime_address(by_ephemeral_pubkey))}
        : by_ephemeral_pubkey \in
            {Permute(built.enotes, p) : p \in SortedOrders(sort_by_ephemeral_pubkey(built.enotes))}}

\* the end of the call without the last sort, by Ko
sort_output_enote_proposals_by_ephemeral_pubkey(built, num_proposals) ==
    UNION {
        IF \/ num_proposals = 2
              /\ is_sorted_and_unique(sort_by_ephemeral_pubkey(by_ephemeral_pubkey))
           \/ num_proposals # 2
              /\ ~is_sorted_and_unique(sort_by_ephemeral_pubkey(by_ephemeral_pubkey))
        THEN {[threw |-> TRUE, crashed |-> FALSE,
               output_enote_proposals_out |-> by_ephemeral_pubkey,
               encrypted_payment_id_out |-> built.encrypted_payment_id]}
        ELSE {[threw |-> FALSE, crashed |-> FALSE,
               output_enote_proposals_out |-> by_ephemeral_pubkey,
               encrypted_payment_id_out |-> built.encrypted_payment_id]}
        : by_ephemeral_pubkey \in
            {Permute(built.enotes, p) : p \in SortedOrders(sort_by_ephemeral_pubkey(built.enotes))}}

\* The end of the call: the enotes are sorted by D_e, a 2-out set must share
\* its D_e and a larger set must not repeat one, and the enotes are sorted by
\* Ko.  Yields the outcomes [threw, crashed, output_enote_proposals_out,
\* encrypted_payment_id_out], one for each order std::sort may produce.
sort_output_enote_proposals(built, num_proposals) ==
    UNION {
        IF \/ num_proposals = 2
              /\ is_sorted_and_unique(sort_by_ephemeral_pubkey(by_ephemeral_pubkey))
           \/ num_proposals # 2
              /\ ~is_sorted_and_unique(sort_by_ephemeral_pubkey(by_ephemeral_pubkey))
        THEN {[threw |-> TRUE, crashed |-> FALSE,
               output_enote_proposals_out |-> by_ephemeral_pubkey,
               encrypted_payment_id_out |-> built.encrypted_payment_id]}
        ELSE {[threw |-> FALSE, crashed |-> FALSE,
               output_enote_proposals_out |-> Permute(by_ephemeral_pubkey, q),
               encrypted_payment_id_out |-> built.encrypted_payment_id]
              : q \in SortedOrders(sort_by_onetime_address(by_ephemeral_pubkey))}
        : by_ephemeral_pubkey \in
            {Permute(built.enotes, p) : p \in SortedOrders(sort_by_ephemeral_pubkey(built.enotes))}}

\* get_output_enote_proposals without the limit of one integrated address
get_output_enote_proposals_any_integrated(normal_payment_proposals, selfsend_payment_proposals, s_view_balance_dev, k_view_dev, account_spend_pubkey, tx_first_key_image, random_payment_id, random_anchor) ==
    LET num_proposals == Len(normal_payment_proposals) + Len(selfsend_payment_proposals)
        num_integrated ==
            Cardinality({i \in DOMAIN normal_payment_proposals :
                normal_payment_proposals[i].destination.payment_id # null_payment_id})
        Cleared == [threw |-> FALSE, enotes |-> <<>>, encrypted_payment_id |-> null_payment_id]
        Thrown(built) ==
            [threw |-> TRUE, crashed |-> FALSE, output_enote_proposals_out |-> built.enotes,
             encrypted_payment_id_out |-> built.encrypted_payment_id]
        Crashed ==
            [threw |-> FALSE, crashed |-> TRUE, output_enote_proposals_out |-> <<>>,
             encrypted_payment_id_out |-> null_payment_id]
        \* std::sort works on the caller's vector: the orders it may leave it in
        by_randomness ==
            {Permute(normal_payment_proposals, p)
                : p \in SortedOrders(sort_by_randomness(normal_payment_proposals))}
        Leaving(r, proposals) ==
            [threw |-> r.threw, crashed |-> r.crashed,
             output_enote_proposals_out |-> r.output_enote_proposals_out,
             encrypted_payment_id_out |-> r.encrypted_payment_id_out,
             normal_payment_proposals |-> proposals]
    IN  IF \/ num_proposals < CARROT_MIN_TX_OUTPUTS
           \/ num_proposals > CARROT_MAX_TX_OUTPUTS
           \/ Len(selfsend_payment_proposals) = 0
           \/ \E i \in DOMAIN normal_payment_proposals :
                  normal_payment_proposals[i].randomness = null_anchor
        THEN {Leaving(Thrown(Cleared), normal_payment_proposals)}
        \* sorted by randomness, two neighbours are equal
        ELSE IF \E i, j \in DOMAIN normal_payment_proposals :
                   i # j /\ normal_payment_proposals[i].randomness
                             = normal_payment_proposals[j].randomness
        THEN {Leaving(Thrown(Cleared), sorted) : sorted \in by_randomness}
        ELSE UNION {{Leaving(r, sorted) : r \in UNION {
            (IF k_view_dev = NullDevice /\ Len(normal_payment_proposals) > 0
             THEN {Crashed} ELSE {})
            \cup
            (IF normal.threw THEN {Thrown(normal)}
             ELSE UNION {
                 IF all.threw THEN {Thrown(all)}
                 ELSE sort_output_enote_proposals(all, num_proposals)
                 : all \in {construct_selfsend_enotes(
                       [normal EXCEPT !.encrypted_payment_id =
                           IF num_integrated = 0 /\ Len(normal_payment_proposals) > 1
                           THEN random_payment_id ELSE @],
                       selfsend_payment_proposals, 1, s_view_balance_dev, k_view_dev,
                       account_spend_pubkey, tx_first_key_image, random_anchor)}})
            : normal \in {construct_normal_enotes(Cleared, sorted, 1, tx_first_key_image)}}}
            : sorted \in by_randomness}

\* get_output_enote_proposals without the check that every anchor_norm is set
get_output_enote_proposals_unchecked_anchor(normal_payment_proposals, selfsend_payment_proposals, s_view_balance_dev, k_view_dev, account_spend_pubkey, tx_first_key_image, random_payment_id, random_anchor) ==
    LET num_proposals == Len(normal_payment_proposals) + Len(selfsend_payment_proposals)
        num_integrated ==
            Cardinality({i \in DOMAIN normal_payment_proposals :
                normal_payment_proposals[i].destination.payment_id # null_payment_id})
        Cleared == [threw |-> FALSE, enotes |-> <<>>, encrypted_payment_id |-> null_payment_id]
        Thrown(built) ==
            [threw |-> TRUE, crashed |-> FALSE, output_enote_proposals_out |-> built.enotes,
             encrypted_payment_id_out |-> built.encrypted_payment_id]
        Crashed ==
            [threw |-> FALSE, crashed |-> TRUE, output_enote_proposals_out |-> <<>>,
             encrypted_payment_id_out |-> null_payment_id]
        \* std::sort works on the caller's vector: the orders it may leave it in
        by_randomness ==
            {Permute(normal_payment_proposals, p)
                : p \in SortedOrders(sort_by_randomness(normal_payment_proposals))}
        Leaving(r, proposals) ==
            [threw |-> r.threw, crashed |-> r.crashed,
             output_enote_proposals_out |-> r.output_enote_proposals_out,
             encrypted_payment_id_out |-> r.encrypted_payment_id_out,
             normal_payment_proposals |-> proposals]
    IN  IF \/ num_proposals < CARROT_MIN_TX_OUTPUTS
           \/ num_proposals > CARROT_MAX_TX_OUTPUTS
           \/ Len(selfsend_payment_proposals) = 0
           \/ num_integrated > 1
        THEN {Leaving(Thrown(Cleared), normal_payment_proposals)}
        \* sorted by randomness, two neighbours are equal
        ELSE IF \E i, j \in DOMAIN normal_payment_proposals :
                   i # j /\ normal_payment_proposals[i].randomness
                             = normal_payment_proposals[j].randomness
        THEN {Leaving(Thrown(Cleared), sorted) : sorted \in by_randomness}
        ELSE UNION {{Leaving(r, sorted) : r \in UNION {
            (IF k_view_dev = NullDevice /\ Len(normal_payment_proposals) > 0
             THEN {Crashed} ELSE {})
            \cup
            (IF normal.threw THEN {Thrown(normal)}
             ELSE UNION {
                 IF all.threw THEN {Thrown(all)}
                 ELSE sort_output_enote_proposals(all, num_proposals)
                 : all \in {construct_selfsend_enotes(
                       [normal EXCEPT !.encrypted_payment_id =
                           IF num_integrated = 0 /\ Len(normal_payment_proposals) > 1
                           THEN random_payment_id ELSE @],
                       selfsend_payment_proposals, 1, s_view_balance_dev, k_view_dev,
                       account_spend_pubkey, tx_first_key_image, random_anchor)}})
            : normal \in {construct_normal_enotes(Cleared, sorted, 1, tx_first_key_image)}}}
            : sorted \in by_randomness}

\* The outcomes of get_output_enote_proposals: [threw, crashed,
\* output_enote_proposals_out, encrypted_payment_id_out,
\* normal_payment_proposals] as the caller sees them afterwards: the vector of
\* normal payment proposals is sorted in place.  random_payment_id is the
\* value of gen_payment_id() and random_anchor the value of
\* gen_janus_anchor().  *k_view_dev is evaluated for every normal proposal:
\* with a null k_view_dev the behaviour is undefined, and the call either
\* goes on or the process dies.
get_output_enote_proposals(normal_payment_proposals, selfsend_payment_proposals, s_view_balance_dev, k_view_dev, account_spend_pubkey, tx_first_key_image, random_payment_id, random_anchor) ==
    LET num_proposals == Len(normal_payment_proposals) + Len(selfsend_payment_proposals)
        num_integrated ==
            Cardinality({i \in DOMAIN normal_payment_proposals :
                normal_payment_proposals[i].destination.payment_id # null_payment_id})
        Cleared == [threw |-> FALSE, enotes |-> <<>>, encrypted_payment_id |-> null_payment_id]
        Thrown(built) ==
            [threw |-> TRUE, crashed |-> FALSE, output_enote_proposals_out |-> built.enotes,
             encrypted_payment_id_out |-> built.encrypted_payment_id]
        Crashed ==
            [threw |-> FALSE, crashed |-> TRUE, output_enote_proposals_out |-> <<>>,
             encrypted_payment_id_out |-> null_payment_id]
        \* std::sort works on the caller's vector: the orders it may leave it in
        by_randomness ==
            {Permute(normal_payment_proposals, p)
                : p \in SortedOrders(sort_by_randomness(normal_payment_proposals))}
        Leaving(r, proposals) ==
            [threw |-> r.threw, crashed |-> r.crashed,
             output_enote_proposals_out |-> r.output_enote_proposals_out,
             encrypted_payment_id_out |-> r.encrypted_payment_id_out,
             normal_payment_proposals |-> proposals]
    IN  IF \/ num_proposals < CARROT_MIN_TX_OUTPUTS
           \/ num_proposals > CARROT_MAX_TX_OUTPUTS
           \/ Len(selfsend_payment_proposals) = 0
           \/ num_integrated > 1
           \/ \E i \in DOMAIN normal_payment_proposals :
                  normal_payment_proposals[i].randomness = null_anchor
        THEN {Leaving(Thrown(Cleared), normal_payment_proposals)}
        \* sorted by randomness, two neighbours are equal
        ELSE IF \E i, j \in DOMAIN normal_payment_proposals :
                   i # j /\ normal_payment_proposals[i].randomness
                             = normal_payment_proposals[j].randomness
        THEN {Leaving(Thrown(Cleared), sorted) : sorted \in by_randomness}
        ELSE UNION {{Leaving(r, sorted) : r \in UNION {
            (IF k_view_dev = NullDevice /\ Len(normal_payment_proposals) > 0
             THEN {Crashed} ELSE {})
            \cup
            (IF normal.threw THEN {Thrown(normal)}
             ELSE UNION {
                 IF all.threw THEN {Thrown(all)}
                 ELSE sort_output_enote_proposals(all, num_proposals)
                 : all \in {construct_selfsend_enotes(
                       [normal EXCEPT !.encrypted_payment_id =
                           IF num_integrated = 0 /\ Len(normal_payment_proposals) > 1
                           THEN random_payment_id ELSE @],
                       selfsend_payment_proposals, 1, s_view_balance_dev, k_view_dev,
                       account_spend_pubkey, tx_first_key_image, random_anchor)}})
            : normal \in {construct_normal_enotes(Cleared, sorted, 1, tx_first_key_image)}}}
            : sorted \in by_randomness}

\* ------------------------------------------------------------------------
\* Output set policy
\* ------------------------------------------------------------------------
PAYMENT_SHARED == "PAYMENT_SHARED"
CHANGE_SHARED == "CHANGE_SHARED"
CHANGE_UNIQUE == "CHANGE_UNIQUE"
DUMMY == "DUMMY"
AdditionalOutputType == {PAYMENT_SHARED, CHANGE_SHARED, CHANGE_UNIQUE, DUMMY}

\* an empty std::optional<AdditionalOutputType>
nullopt == "nullopt"

\* a call that threw returns nothing
ThrownResult == [threw |-> TRUE, value |-> "UNSET"]

Returned(value) == [threw |-> FALSE, value |-> value]

\* get_additional_output_type with the self-send type test the wrong way round
get_additional_output_type_swapped_selfsend_type(num_outgoing, num_selfsend, remaining_change, have_payment_type_selfsend) ==
    LET num_outputs == num_outgoing + num_selfsend
        already_completed == num_outputs >= 2 /\ num_selfsend >= 1 /\ ~remaining_change
    IN  IF num_outputs = 0 THEN ThrownResult
        ELSE IF already_completed THEN Returned(nullopt)
        ELSE IF num_outputs = 1
        THEN IF num_selfsend = 0 THEN Returned(CHANGE_SHARED)
             ELSE IF ~remaining_change THEN Returned(DUMMY)
             ELSE IF have_payment_type_selfsend THEN Returned(PAYMENT_SHARED)
             ELSE Returned(CHANGE_SHARED)
        ELSE IF num_outputs < CARROT_MAX_TX_OUTPUTS THEN Returned(CHANGE_UNIQUE)
        ELSE ThrownResult

\* get_additional_output_type that still adds an output to a set of CARROT_MAX_TX_OUTPUTS
get_additional_output_type_inclusive_max(num_outgoing, num_selfsend, remaining_change, have_payment_type_selfsend) ==
    LET num_outputs == num_outgoing + num_selfsend
        already_completed == num_outputs >= 2 /\ num_selfsend >= 1 /\ ~remaining_change
    IN  IF num_outputs = 0 THEN ThrownResult
        ELSE IF already_completed THEN Returned(nullopt)
        ELSE IF num_outputs = 1
        THEN IF num_selfsend = 0 THEN Returned(CHANGE_SHARED)
             ELSE IF ~remaining_change THEN Returned(DUMMY)
             ELSE IF have_payment_type_selfsend THEN Returned(CHANGE_SHARED)
             ELSE Returned(PAYMENT_SHARED)
        ELSE IF num_outputs <= CARROT_MAX_TX_OUTPUTS THEN Returned(CHANGE_UNIQUE)
        ELSE ThrownResult

get_additional_output_type(num_outgoing, num_selfsend, remaining_change, have_payment_type_selfsend) ==
    LET num_outputs == num_outgoing + num_selfsend
        already_completed == num_outputs >= 2 /\ num_selfsend >= 1 /\ ~remaining_change
    IN  IF num_outputs = 0 THEN ThrownResult
        ELSE IF already_completed THEN Returned(nullopt)
        ELSE IF num_outputs = 1
        THEN IF num_selfsend = 0 THEN Returned(CHANGE_SHARED)
             ELSE IF ~remaining_change THEN Returned(DUMMY)
             ELSE \* num_selfsend == 1 && remaining_change
                  IF have_payment_type_selfsend THEN Returned(CHANGE_SHARED)
                  ELSE Returned(PAYMENT_SHARED)
        ELSE IF num_outputs < CARROT_MAX_TX_OUTPUTS THEN Returned(CHANGE_UNIQUE)
        ELSE \* num_outputs >= CARROT_MAX_TX_OUTPUTS
             ThrownResult

\* ------------------------------------------------------------------------
\* Spend-authority proof.  rct::key is one 32-byte type for scalars and for
\* compressed points, and every rct function reads each argument the way its
\* parameter says, whatever the bytes were made from: scalarmultKey(P, a)
\* decompresses P and multiplies it by the integer a, addKeys(A, B)
\* decompresses both and adds the points (as in the tests, which build
\* K_o = addKeys(scalarmultBase(x), scalarmultKey(T, y))).
\* ------------------------------------------------------------------------
\* 32 bytes that hold a compressed point
PointKey(P) == [kind |-> "point", scalar |-> 0, point |-> P]

\* 32 bytes that hold a scalar
ScalarKey(a) == [kind |-> "scalar", scalar |-> a, point |-> Identity]

\* what a call that threw leaves in its result
ThrownKey == [kind |-> "thrown", scalar |-> 0, point |-> Identity]

\* ge_frombytes_vartime(bytes) == 0: the bytes are the encoding of a point.
\* About half of all 32-byte strings are.
ge_frombytes_vartime(key) ==
    \/ key.kind = "point"
    \/ key.kind = "scalar" /\ Absorb(HashBase, <<key.scalar>>) % 2 = 0

\* the point that the bytes decompress to: for the bytes of a scalar, a point
\* with no known relation to G, T, H or the scalar
ge_p3(key) ==
    IF key.kind = "point" THEN key.point
    ELSE <<Absorb(HashBase + 1, <<key.scalar>>) % L, Absorb(HashBase + 2, <<key.scalar>>) % L,
           Absorb(HashBase + 3, <<key.scalar>>) % L>>

\* the integer that the bytes spell: for the bytes of a point, an integer
\* with no known relation to the point
sc_bytes(key) ==
    IF key.kind = "scalar" THEN key.scalar ELSE Absorb(HashBase + 4, key.point) % L

\* rct::scalarmultBase(a): a G
rct_scalarmultBase(a) ==
    IF a = ThrownKey THEN ThrownKey ELSE PointKey(scalarmultBase(sc_bytes(a)))

\* rct::scalarmultKey(P, a): a P; throws when P is not the encoding of a point
rct_scalarmultKey(P, a) ==
    IF P = ThrownKey \/ a = ThrownKey \/ ~ge_frombytes_vartime(P) THEN ThrownKey
    ELSE PointKey(scalarmultKey(ge_p3(P), sc_bytes(a)))

\* rct::addKeys(A, B): A + B; throws when A or B is not the encoding of a point
rct_addKeys(A, B) ==
    IF A = ThrownKey \/ B = ThrownKey \/ ~ge_frombytes_vartime(A) \/ ~ge_frombytes_vartime(B)
    THEN ThrownKey
    ELSE PointKey(addKeys(ge_p3(A), ge_p3(B)))

\* rct::subKeys(AB, A, B): A - B
rct_subKeys(A, B) ==
    IF A = ThrownKey \/ B = ThrownKey \/ ~ge_frombytes_vartime(A) \/ ~ge_frombytes_vartime(B)
    THEN ThrownKey
    ELSE PointKey(subKeys(ge_p3(A), ge_p3(B)))

\* the 32 bytes of a key, as hashed
key_bytes(key) == IF key.kind = "point" THEN <<1>> \o key.point ELSE <<0, key.scalar>>

RECURSIVE keyV_bytes(_)
keyV_bytes(keys) == IF keys = <<>> THEN <<>> ELSE key_bytes(Head(keys)) \o keyV_bytes(Tail(keys))

\* rct::hash_to_scalar(keys): the hash of the concatenated keys, reduced mod L
rct_hash_to_scalar(keys) ==
    IF \E i \in DOMAIN keys : keys[i] = ThrownKey THEN ThrownKey
    ELSE ScalarKey(Absorb(0, keyV_bytes(keys)) % L)

\* carrot::spend_authority_proof before make_carrot_spend_authority_proof writes it
UnsetProof ==
    [commitment_G |-> ThrownKey, commitment_T |-> ThrownKey, challenge |-> ThrownKey,
     response_x |-> ThrownKey, response_y |-> ThrownKey]

\* make_carrot_spend_authority_proof(x, y, K_o, proof_out), with the two
\* scalars r1, r2 that rct::skGen() returns
make_carrot_spend_authority_proof(x, y, K_o, r1, r2) ==
    LET commitment_G == rct_scalarmultBase(r1)
        commitment_T == rct_scalarmultKey(r2, PointKey(T))
        challenge == rct_hash_to_scalar(<<commitment_G, commitment_T, K_o>>)
        response_x == rct_addKeys(r1, rct_scalarmultKey(challenge, x))
        response_y == rct_addKeys(r2, rct_scalarmultKey(challenge, y))
    IN  IF ThrownKey \in {commitment_G, commitment_T, challenge, response_x, response_y}
        THEN [threw |-> TRUE, proof_out |-> UnsetProof]
        ELSE [threw |-> FALSE,
              proof_out |-> [commitment_G |-> commitment_G, commitment_T |-> commitment_T,
                             challenge |-> challenge, response_x |-> response_x,
                             response_y |-> response_y]]

\* verify_carrot_spend_authority_proof(proof, K_o)
verify_carrot_spend_authority_proof(proof, K_o) ==
    LET recomputed_challenge == rct_hash_to_scalar(<<proof.commitment_G, proof.commitment_T, K_o>>)
        z1G == rct_scalarmultBase(proof.response_x)
        z2T == rct_scalarmultKey(proof.response_y, PointKey(T))
        cP == rct_scalarmultKey(recomputed_challenge, K_o)
        result == rct_subKeys(rct_addKeys(z1G, z2T), cP)
        sum_commitments == rct_addKeys(proof.commitment_G, proof.commitment_T)
    IN  IF ThrownKey \in {recomputed_challenge, z1G, z2T, cP, result, sum_commitments}
        THEN [threw |-> TRUE, accepted |-> FALSE]
        ELSE [threw |-> FALSE, accepted |-> result = sum_commitments]

\* a^e mod L
RECURSIVE sc_pow(_, _)
sc_pow(a, e) ==
    IF e = 0 THEN 1
    ELSE IF e % 2 = 0 THEN sc_pow((a * a) % L, e \div 2)
    ELSE (a * sc_pow((a * a) % L, e \div 2)) % L

\* sc_invert: 1/a mod L
sc_invert(a) == sc_pow(a % L, L - 2)

\* A proof for K_o made without x and y, from any two commitments: with
\* response_x = 0, response_y is the encoding of the point Z that solves the
\* verifier's equation 0 G + sc_bytes(T) Z - sc_bytes(K_o) ge_p3(c') = R_G + R_T
solved_spend_authority_proof(commitment_G, commitment_T, K_o) ==
    LET recomputed_challenge == rct_hash_to_scalar(<<commitment_G, commitment_T, K_o>>)
        cP == rct_scalarmultKey(recomputed_challenge, K_o)
        target == rct_addKeys(rct_addKeys(commitment_G, commitment_T), cP)
    IN  [commitment_G |-> commitment_G, commitment_T |-> commitment_T,
         challenge |-> recomputed_challenge,
         response_x |-> ScalarKey(0),
         response_y |-> IF target = ThrownKey THEN ThrownKey
                        ELSE PointKey(scalarmultKey(target.point,
                                          sc_invert(sc_bytes(PointKey(T)))))]

\* ------------------------------------------------------------------------
\* State: one account, the last constructor call (made on freshly declared
\* output objects) with its results, and the last scan of the enote built
\* ------------------------------------------------------------------------
VARIABLES
    keys,            \* the account's mock_carrot_keys
    call,            \* the last constructor call: function, arguments, threw
    normal_proposal, \* CarrotPaymentProposalV1 of the last normal/coinbase call
    selfsend_proposal, \* CarrotPaymentProposalSelfSendV1 of the last self-send call
    enote,           \* CarrotEnoteV1 output object
    coinbase_enote,  \* CarrotCoinbaseEnoteV1 output object
    outputs,         \* encrypted_payment_id_out, amount_out, amount_blinding_factor_out
    scan,            \* the last scanner call and its output objects
    normal_payment_proposals,   \* the vectors passed to get_output_enote_proposals
    selfsend_payment_proposals,
    output_enote_proposals_out, \* its std::vector<RCTOutputEnoteProposal> output
    encrypted_payment_id_out,   \* its encrypted_payment_id_t output
    additional_output, \* a call of get_additional_output_type: arguments and result
    proof_call,      \* a spend-authority proof: its inputs, the proof and the verdict
    serialization,   \* a signed integer, its bytes and the integer read back
    ecdh,            \* an ECDH exchange: both sides' inputs and shared secrets
    frame,           \* the secrets in the locals of the last constructor, after its exit
    enote_record     \* an IntermediateEnoteRecordVariant and what an accessor returned for it

\* the arguments and outputs of get_output_enote_proposals
set_vars == <<normal_payment_proposals, selfsend_payment_proposals, output_enote_proposals_out,
              encrypted_payment_id_out>>

\* the state of the calls made outside the enote constructors and scanners
aux_vars == <<additional_output, proof_call, serialization, ecdh, enote_record>>

vars == <<keys, call, normal_proposal, selfsend_proposal, enote, coinbase_enote, outputs, scan,
          normal_payment_proposals, selfsend_payment_proposals, output_enote_proposals_out,
          encrypted_payment_id_out, additional_output, proof_call, serialization, ecdh, frame,
          enote_record>>

\* a second account, whose addresses the first account must not recognize
other_keys == mock_carrot_keys(0)

\* subaddress indices (j_major, j_minor) other than the main address (0, 0)
SubaddressIndices == {<<0, j_minor>> : j_minor \in 1..MaxIndex} \cup {<<MaxIndex, 0>>}

main_address(k) == make_carrot_main_address_v1(k.account_spend_pubkey, k.main_address_view_pubkey)

subaddress(k, j) ==
    make_carrot_subaddress_v1(k.account_spend_pubkey, k.account_view_pubkey,
                              k.s_generate_address, j[1], j[2])

subaddress_scalar(k, j) ==
    make_carrot_subaddress_scalar(k.account_spend_pubkey,
        make_carrot_index_extension_generator(k.s_generate_address, j[1], j[2]), j[1], j[2])

integrated_address(k, payment_id) ==
    make_carrot_integrated_address_v1(k.account_spend_pubkey, k.main_address_view_pubkey,
                                      payment_id)

\* the addresses an account hands out
MainDestinations(k) == {main_address(k)}
SubaddressDestinations(k) == {subaddress(k, j) : j \in SubaddressIndices}
IntegratedDestinations(k) == {integrated_address(k, p) : p \in 1..MaxPid}
AccountDestinations(k) ==
    MainDestinations(k) \cup SubaddressDestinations(k) \cup IntegratedDestinations(k)

\* destination records a sender can put together from an account's addresses:
\* a subaddress spend key next to the main view key (a Janus attempt), and a
\* subaddress that also carries a payment id
MixedDestinations(k) ==
    {[d EXCEPT !.address_view_pubkey = k.main_address_view_pubkey, !.is_subaddress = FALSE]
        : d \in SubaddressDestinations(k)}
    \cup {[d EXCEPT !.payment_id = p] : d \in SubaddressDestinations(k), p \in 1..MaxPid}

Destinations(k) == AccountDestinations(k) \cup MixedDestinations(k) \cup MainDestinations(other_keys)

\* the spend keys of the account's own addresses
AccountSpendPubkeys(k) == {d.address_spend_pubkey : d \in AccountDestinations(k)}

\* crypto::x25519_pubkey_gen()
EphemeralPubkeys == {x25519_scmul_key(r, x25519_base) : r \in 1..MaxEphemeral}

NormalProposals(k) ==
    [destination : Destinations(k), amount : 0..MaxAmount, randomness : 0..MaxAnchor]

SelfSendProposals(k) ==
    [destination_address_spend_pubkey : AccountSpendPubkeys(k), amount : 0..MaxAmount,
     enote_type : CarrotEnoteType, enote_ephemeral_pubkey : EphemeralPubkeys]

NoCall ==
    [fn |-> "none", threw |-> FALSE, crashed |-> FALSE, tx_first_key_image |-> UnsetInt,
     block_index |-> UnsetInt, primary_address_spend_pubkey |-> UnsetPoint,
     s_view_balance_dev |-> NullDevice, k_view_dev |-> NullDevice]

\* the proposals handed to get_output_enote_proposals: payments to the main
\* address and to an integrated address, and self-sends whose D_e is either
\* fresh or the D_e of the first normal proposal
SetNormalProposals(k) ==
    [destination : MainDestinations(k) \cup {integrated_address(k, MaxPid)},
     amount : {MaxAmount}, randomness : 0..MaxAnchor]

SetSelfSendProposals(k, normal, tx_first_key_image) ==
    [destination_address_spend_pubkey : {k.account_spend_pubkey}, amount : {MaxAmount},
     enote_type : CarrotEnoteType,
     enote_ephemeral_pubkey :
         {x25519_scmul_key(MaxEphemeral, x25519_base)}
         \cup {get_enote_ephemeral_pubkey(normal[i],
                    make_carrot_input_context(tx_first_key_image)) : i \in DOMAIN normal \cap {1}}]

\* the vectors of at most n elements of S
SeqsUpTo(S, n) == UNION {[1..m -> S] : m \in 0..n}

\* a vector longer than CARROT_MAX_TX_OUTPUTS + 1 takes the path of one that long
MaxProposals == CARROT_MAX_TX_OUTPUTS + 1

NoNormalProposal ==
    [destination |-> [address_spend_pubkey |-> UnsetPoint, address_view_pubkey |-> UnsetPoint,
                      is_subaddress |-> FALSE, payment_id |-> UnsetInt],
     amount |-> UnsetInt, randomness |-> UnsetInt]

NoSelfSendProposal ==
    [destination_address_spend_pubkey |-> UnsetPoint, amount |-> UnsetInt,
     enote_type |-> UnsetType, enote_ephemeral_pubkey |-> UnsetPoint]

\* tools::optional_variant<CarrotPaymentProposalV1, CarrotPaymentProposalSelfSendV1>:
\* empty, or one of the two proposal types
EmptyVariant ==
    [threw |-> FALSE, holds |-> "none", normal |-> NoNormalProposal,
     selfsend |-> NoSelfSendProposal]

NormalVariant(proposal) == [EmptyVariant EXCEPT !.holds = "normal", !.normal = proposal]

SelfSendVariant(proposal) == [EmptyVariant EXCEPT !.holds = "selfsend", !.selfsend = proposal]

ThrownVariant == [EmptyVariant EXCEPT !.threw = TRUE]

\* get_additional_output_proposal whose CHANGE_UNIQUE self-send carries no change
get_additional_output_proposal_empty_unique_change(num_outgoing, num_selfsend, remaining_change, have_payment_type_selfsend, change_address_spend_pubkey, other_enote_ephemeral_pubkey, x25519_pubkey_gen, gen_carrot_main_address_v1, gen_janus_anchor) ==
    LET additional_output_type ==
            get_additional_output_type(num_outgoing, num_selfsend, remaining_change # 0,
                                       have_payment_type_selfsend)
    IN  IF additional_output_type.threw THEN ThrownVariant
        ELSE IF additional_output_type.value = nullopt THEN EmptyVariant
        ELSE CASE additional_output_type.value = PAYMENT_SHARED ->
                      SelfSendVariant(
                          [destination_address_spend_pubkey |-> change_address_spend_pubkey,
                           amount |-> remaining_change, enote_type |-> PAYMENT,
                           enote_ephemeral_pubkey |-> other_enote_ephemeral_pubkey])
               [] additional_output_type.value = CHANGE_SHARED ->
                      SelfSendVariant(
                          [destination_address_spend_pubkey |-> change_address_spend_pubkey,
                           amount |-> remaining_change, enote_type |-> CHANGE,
                           enote_ephemeral_pubkey |-> other_enote_ephemeral_pubkey])
               [] additional_output_type.value = CHANGE_UNIQUE ->
                      SelfSendVariant(
                          [destination_address_spend_pubkey |-> change_address_spend_pubkey,
                           amount |-> 0, enote_type |-> CHANGE,
                           enote_ephemeral_pubkey |-> x25519_pubkey_gen])
               [] additional_output_type.value = DUMMY ->
                      NormalVariant(
                          [destination |-> gen_carrot_main_address_v1, amount |-> 0,
                           randomness |-> gen_janus_anchor])

\* get_additional_output_proposal(num_outgoing, num_selfsend, remaining_change,
\*     have_payment_type_selfsend, change_address_spend_pubkey,
\*     other_enote_ephemeral_pubkey).  remaining_change is an rct::xmr_amount
\* and converts to the bool that get_additional_output_type takes.  The last
\* three parameters are the values of crypto::x25519_pubkey_gen(),
\* gen_carrot_main_address_v1() and gen_janus_anchor().
get_additional_output_proposal(num_outgoing, num_selfsend, remaining_change, have_payment_type_selfsend, change_address_spend_pubkey, other_enote_ephemeral_pubkey, x25519_pubkey_gen, gen_carrot_main_address_v1, gen_janus_anchor) ==
    LET additional_output_type ==
            get_additional_output_type(num_outgoing, num_selfsend, remaining_change # 0,
                                       have_payment_type_selfsend)
    IN  IF additional_output_type.threw THEN ThrownVariant
        ELSE IF additional_output_type.value = nullopt THEN EmptyVariant
        ELSE CASE additional_output_type.value = PAYMENT_SHARED ->
                      SelfSendVariant(
                          [destination_address_spend_pubkey |-> change_address_spend_pubkey,
                           amount |-> remaining_change, enote_type |-> PAYMENT,
                           enote_ephemeral_pubkey |-> other_enote_ephemeral_pubkey])
               [] additional_output_type.value = CHANGE_SHARED ->
                      SelfSendVariant(
                          [destination_address_spend_pubkey |-> change_address_spend_pubkey,
                           amount |-> remaining_change, enote_type |-> CHANGE,
                           enote_ephemeral_pubkey |-> other_enote_ephemeral_pubkey])
               [] additional_output_type.value = CHANGE_UNIQUE ->
                      SelfSendVariant(
                          [destination_address_spend_pubkey |-> change_address_spend_pubkey,
                           amount |-> remaining_change, enote_type |-> CHANGE,
                           enote_ephemeral_pubkey |-> x25519_pubkey_gen])
               [] additional_output_type.value = DUMMY ->
                      NormalVariant(
                          [destination |-> gen_carrot_main_address_v1, amount |-> 0,
                           randomness |-> gen_janus_anchor])

\* no call of get_additional_output_type has been made
NoAdditionalOutput ==
    [fn |-> "none", num_outgoing |-> 0, num_selfsend |-> 0, remaining_change |-> FALSE,
     have_payment_type_selfsend |-> FALSE, result |-> ThrownResult]

NoProofCall == [fn |-> "none"]

NoSerialization == [fn |-> "none"]

NoEcdh == [fn |-> "none"]

NoEnoteRecord == [fn |-> "none"]

NoScan == [scanner |-> "none", encrypted_payment_id |-> NoPid, result |-> UnsetScan]

\* no constructor has been called: the output objects are freshly declared
NoEnoteCall ==
    /\ call = NoCall
    /\ normal_proposal = NoNormalProposal
    /\ selfsend_proposal = NoSelfSendProposal
    /\ enote = UnsetEnote
    /\ coinbase_enote = UnsetCoinbaseEnote
    /\ outputs = UnsetOutputs
    /\ scan = NoScan
    /\ normal_payment_proposals = <<>>
    /\ selfsend_payment_proposals = <<>>
    /\ output_enote_proposals_out = <<>>
    /\ encrypted_payment_id_out = UnsetInt
    /\ frame = NoFrame

\* none of the other calls has been made
NoAuxCall ==
    /\ additional_output = NoAdditionalOutput
    /\ proof_call = NoProofCall
    /\ serialization = NoSerialization
    /\ ecdh = NoEcdh
    /\ enote_record = NoEnoteRecord

Init ==
    /\ keys \in {mock_carrot_keys(s_master) : s_master \in 1..MaxSeed}
    /\ NoEnoteCall
    /\ NoAuxCall

\* get_output_proposal_normal_v1(proposal, tx_first_key_image, enote, pid_enc, amount, k_a)
NormalV1 ==
    /\ call.fn = "none"
    /\ \E proposal \in NormalProposals(keys), tx_first_key_image \in 1..MaxContext :
        LET r == get_output_proposal_normal_v1(proposal, tx_first_key_image)
        IN  /\ call' = [NoCall EXCEPT !.fn = "normal", !.threw = r.threw,
                                      !.tx_first_key_image = tx_first_key_image]
            /\ normal_proposal' = proposal
            /\ selfsend_proposal' = NoSelfSendProposal
            /\ enote' = r.enote
            /\ coinbase_enote' = UnsetCoinbaseEnote
            /\ outputs' = r.outputs
            /\ scan' = NoScan
            /\ frame' = get_output_proposal_normal_v1_frame(proposal, tx_first_key_image)
            /\ UNCHANGED <<keys, set_vars, aux_vars>>

\* get_coinbase_output_proposal_v1(proposal, block_index, enote)
CoinbaseV1 ==
    /\ call.fn = "none"
    /\ \E proposal \in NormalProposals(keys), block_index \in 0..MaxContext :
        LET r == get_coinbase_output_proposal_v1(proposal, block_index)
        IN  /\ call' = [NoCall EXCEPT !.fn = "coinbase", !.threw = r.threw,
                                      !.block_index = block_index]
            /\ normal_proposal' = proposal
            /\ selfsend_proposal' = NoSelfSendProposal
            /\ enote' = UnsetEnote
            /\ coinbase_enote' = r.enote
            /\ outputs' = UnsetOutputs
            /\ scan' = NoScan
            /\ frame' = get_coinbase_output_proposal_v1_frame(proposal, block_index)
            /\ UNCHANGED <<keys, set_vars, aux_vars>>

\* get_output_proposal_special_v1(proposal, k_v, K_s, tx_first_key_image, enote, amount, k_a)
SpecialV1 ==
    /\ call.fn = "none"
    /\ \E proposal \in SelfSendProposals(keys), tx_first_key_image \in 1..MaxContext,
       primary_address_spend_pubkey \in
           {keys.account_spend_pubkey, other_keys.account_spend_pubkey} :
        LET r == get_output_proposal_special_v1(proposal, keys.k_view,
                     primary_address_spend_pubkey, tx_first_key_image)
        IN  /\ call' = [NoCall EXCEPT !.fn = "special", !.threw = r.threw,
                                      !.tx_first_key_image = tx_first_key_image,
                                      !.primary_address_spend_pubkey = primary_address_spend_pubkey]
            /\ selfsend_proposal' = proposal
            /\ normal_proposal' = NoNormalProposal
            /\ enote' = r.enote
            /\ coinbase_enote' = UnsetCoinbaseEnote
            /\ outputs' = r.outputs
            /\ scan' = NoScan
            /\ frame' = get_output_proposal_special_v1_frame(proposal, keys.k_view,
                             primary_address_spend_pubkey, tx_first_key_image)
            /\ UNCHANGED <<keys, set_vars, aux_vars>>

\* get_output_proposal_internal_v1(proposal, s_vb, tx_first_key_image, enote, amount, k_a)
InternalV1 ==
    /\ call.fn = "none"
    /\ \E proposal \in SelfSendProposals(keys), tx_first_key_image \in 1..MaxContext,
       random_anchor \in 0..MaxAnchor :
        LET r == get_output_proposal_internal_v1(proposal, keys.s_view_balance,
                     tx_first_key_image, random_anchor)
        IN  /\ call' = [NoCall EXCEPT !.fn = "internal", !.threw = r.threw,
                                      !.tx_first_key_image = tx_first_key_image]
            /\ selfsend_proposal' = proposal
            /\ normal_proposal' = NoNormalProposal
            /\ enote' = r.enote
            /\ coinbase_enote' = UnsetCoinbaseEnote
            /\ outputs' = r.outputs
            /\ scan' = NoScan
            /\ frame' = get_output_proposal_internal_v1_frame(proposal, keys.s_view_balance,
                             tx_first_key_image)
            /\ UNCHANGED <<keys, set_vars, aux_vars>>

\* get_output_enote_proposals(normal_payment_proposals, selfsend_payment_proposals,
\*     s_view_balance_dev, k_view_dev, account_spend_pubkey, tx_first_key_image,
\*     output_enote_proposals_out, encrypted_payment_id_out)
GetOutputEnoteProposals ==
    /\ call.fn = "none"
    /\ \E normal \in SeqsUpTo(SetNormalProposals(keys), MaxNormal),
          s_view_balance_dev \in {NullDevice, keys.s_view_balance},
          k_view_dev \in {NullDevice, keys.k_view},
          tx_first_key_image \in {MaxContext} :
        \E selfsend \in SeqsUpTo(SetSelfSendProposals(keys, normal, tx_first_key_image),
                                 IF MaxProposals - Len(normal) < MaxSelfSend
                                 THEN MaxProposals - Len(normal) ELSE MaxSelfSend) :
            \E r \in get_output_enote_proposals(normal, selfsend, s_view_balance_dev, k_view_dev,
                         keys.account_spend_pubkey, tx_first_key_image, MaxPid, MaxAnchor) :
                /\ call' = [NoCall EXCEPT !.fn = "set", !.threw = r.threw, !.crashed = r.crashed,
                                          !.tx_first_key_image = tx_first_key_image,
                                          !.s_view_balance_dev = s_view_balance_dev,
                                          !.k_view_dev = k_view_dev]
                /\ normal_payment_proposals' = r.normal_payment_proposals
                /\ selfsend_payment_proposals' = selfsend
                /\ output_enote_proposals_out' = r.output_enote_proposals_out
                /\ encrypted_payment_id_out' = r.encrypted_payment_id_out
                /\ normal_proposal' = NoNormalProposal
                /\ selfsend_proposal' = NoSelfSendProposal
                /\ enote' = UnsetEnote
                /\ coinbase_enote' = UnsetCoinbaseEnote
                /\ outputs' = UnsetOutputs
                /\ scan' = NoScan
                /\ frame' = NoFrame
                /\ UNCHANGED <<keys, aux_vars>>

\* try_scan_carrot_enote_external on the enote, with s_sr = 8 k_v D_e; the
\* caller passes no pid_enc, or the pid_enc published with the transaction
ScanExternal ==
    /\ scan.scanner = "none"
    /\ enote # UnsetEnote
    /\ \E encrypted_payment_id \in
           {NoPid, outputs.encrypted_payment_id} \cup (0..MaxPid) :
        /\ scan' = [scanner |-> "external",
                    encrypted_payment_id |-> encrypted_payment_id,
                    result |-> try_scan_carrot_enote_external(enote, encrypted_payment_id,
                        make_carrot_uncontextualized_shared_key_receiver(keys.k_view,
                            enote.enote_ephemeral_pubkey),
                        keys.k_view, keys.account_spend_pubkey)]
    /\ UNCHANGED <<keys, call, normal_proposal, selfsend_proposal, enote, coinbase_enote, outputs,
                   set_vars, aux_vars, frame>>

\* try_scan_carrot_enote_internal on the enote, with s_vb
ScanInternal ==
    /\ scan.scanner = "none"
    /\ enote # UnsetEnote
    /\ scan' = [scanner |-> "internal",
                encrypted_payment_id |-> NoPid,
                result |-> try_scan_carrot_enote_internal(enote, keys.s_view_balance)]
    /\ UNCHANGED <<keys, call, normal_proposal, selfsend_proposal, enote, coinbase_enote, outputs,
                   set_vars, aux_vars, frame>>

\* try_scan_carrot_coinbase_enote on the coinbase enote, with s_sr = 8 k_v D_e
ScanCoinbase ==
    /\ scan.scanner = "none"
    /\ coinbase_enote # UnsetCoinbaseEnote
    /\ scan' = [scanner |-> "coinbase",
                encrypted_payment_id |-> NoPid,
                result |-> try_scan_carrot_coinbase_enote(coinbase_enote,
                    make_carrot_uncontextualized_shared_key_receiver(keys.k_view,
                        coinbase_enote.enote_ephemeral_pubkey),
                    keys.k_view, keys.account_spend_pubkey)]
    /\ UNCHANGED <<keys, call, normal_proposal, selfsend_proposal, enote, coinbase_enote, outputs,
                   set_vars, aux_vars, frame>>

Next ==
    \/ NormalV1
    \/ CoinbaseV1
    \/ SpecialV1
    \/ InternalV1
    \/ GetOutputEnoteProposals
    \/ ScanExternal
    \/ ScanInternal
    \/ ScanCoinbase

Spec == Init /\ [][Next]_vars

\* ------------------------------------------------------------------------
\* get_additional_output_type on every state of a set of up to
\* CARROT_MAX_TX_OUTPUTS + 1 outputs
\* ------------------------------------------------------------------------
AdditionalOutputInputs ==
    [fn : {"pending"}, num_outgoing : 0..MaxProposals, num_selfsend : 0..MaxProposals,
     remaining_change : BOOLEAN, have_payment_type_selfsend : BOOLEAN, result : {ThrownResult}]

PolicyInit ==
    /\ keys = mock_carrot_keys(MaxSeed)
    /\ NoEnoteCall
    /\ additional_output \in AdditionalOutputInputs
    /\ proof_call = NoProofCall
    /\ serialization = NoSerialization
    /\ ecdh = NoEcdh
    /\ enote_record = NoEnoteRecord

GetAdditionalOutputType ==
    /\ additional_output.fn = "pending"
    /\ additional_output' =
           [additional_output EXCEPT
               !.fn = "get_additional_output_type",
               !.result = get_additional_output_type(additional_output.num_outgoing,
                              additional_output.num_selfsend,
                              additional_output.remaining_change,
                              additional_output.have_payment_type_selfsend)]
    /\ UNCHANGED <<keys, call, normal_proposal, selfsend_proposal, enote, coinbase_enote, outputs,
                   scan, set_vars, proof_call, serialization, ecdh, frame,
                enote_record>>

PolicyNext == GetAdditionalOutputType

PolicySpec == PolicyInit /\ [][PolicyNext]_vars

\* ------------------------------------------------------------------------
\* TEST(carrot_sparc, get_spend_authority_proof_completeness): a proof is
\* made for K_o = x G + y T and verified; a verifier also receives proofs made
\* elsewhere, and a proof that was verified is changed in one field and
\* verified again
\* ------------------------------------------------------------------------
ProofCall(x, y, r1, r2) ==
    [fn |-> "pending", x |-> ScalarKey(x), y |-> ScalarKey(y),
     r1 |-> ScalarKey(r1), r2 |-> ScalarKey(r2),
     K_o |-> rct_addKeys(rct_scalarmultBase(ScalarKey(x)),
                         rct_scalarmultKey(PointKey(T), ScalarKey(y))),
     source |-> "none", threw |-> FALSE, proof |-> UnsetProof,
     accepted |-> FALSE, changed |-> "none", accepted_before |-> FALSE]

ProofInit ==
    /\ keys = mock_carrot_keys(MaxSeed)
    /\ NoEnoteCall
    /\ additional_output = NoAdditionalOutput
    /\ proof_call \in {ProofCall(x, y, r1, r2) : x, y, r1, r2 \in 1..MaxScalar}
    /\ serialization = NoSerialization
    /\ ecdh = NoEcdh
    /\ enote_record = NoEnoteRecord

proof_unchanged ==
    UNCHANGED <<keys, call, normal_proposal, selfsend_proposal, enote, coinbase_enote, outputs,
                scan, set_vars, additional_output, serialization, ecdh, frame,
                enote_record>>

\* carrot::make_carrot_spend_authority_proof(x, y, K_o, proof)
MakeProof ==
    /\ proof_call.fn = "pending"
    /\ LET r == make_carrot_spend_authority_proof(proof_call.x, proof_call.y, proof_call.K_o,
                    proof_call.r1, proof_call.r2)
       IN  proof_call' = [proof_call EXCEPT !.fn = "made", !.source = "made",
                                            !.threw = r.threw, !.proof = r.proof_out]
    /\ proof_unchanged

\* the verifier is handed a proof for K_o that was not made by
\* make_carrot_spend_authority_proof
ReceiveProof ==
    /\ proof_call.fn = "pending"
    /\ proof_call' =
           [proof_call EXCEPT
               !.fn = "made", !.source = "received",
               !.proof = solved_spend_authority_proof(rct_scalarmultBase(proof_call.r1),
                             rct_scalarmultKey(PointKey(T), proof_call.r2), proof_call.K_o)]
    /\ proof_unchanged

\* carrot::verify_carrot_spend_authority_proof(proof, K_o); an exception
\* leaves the proof unaccepted
VerifyProof ==
    /\ proof_call.fn \in {"made", "changed"}
    /\ ~proof_call.threw
    /\ LET r == verify_carrot_spend_authority_proof(proof_call.proof, proof_call.K_o)
       IN  proof_call' = [proof_call EXCEPT
                             !.fn = IF proof_call.fn = "made" THEN "verified" ELSE "reverified",
                             !.threw = r.threw, !.accepted = r.accepted]
    /\ proof_unchanged

\* the values a field is changed to: the next scalar and the next point
ChangedKeys(key) ==
    {ScalarKey((sc_bytes(key) + 1) % L), PointKey(addKeys(ge_p3(key), G))} \ {key}

ProofFields == {"commitment_G", "commitment_T", "challenge", "response_x", "response_y"}

\* one field of the verified proof, or the key it is verified against, is
\* replaced by a different value
ChangeProof ==
    /\ proof_call.fn = "verified"
    /\ \/ \E field \in ProofFields : \E key \in ChangedKeys(proof_call.proof[field]) :
              proof_call' = [proof_call EXCEPT !.fn = "changed", !.changed = field,
                                               !.accepted_before = proof_call.accepted,
                                               !.threw = FALSE, !.proof[field] = key]
       \/ \E key \in ChangedKeys(proof_call.K_o) :
              proof_call' = [proof_call EXCEPT !.fn = "changed", !.changed = "K_o",
                                               !.accepted_before = proof_call.accepted,
                                               !.threw = FALSE, !.K_o = key]
    /\ proof_unchanged

ProofNext ==
    \/ MakeProof
    \/ ReceiveProof
    \/ VerifyProof
    \/ ChangeProof

ProofSpec == ProofInit /\ [][ProofNext]_vars

\* ------------------------------------------------------------------------
\* Int256 / Int512 serialization (tests/unit_tests/carrot.cpp)
\* ------------------------------------------------------------------------
\* boost::multiprecision::int256_t and int512_t are fixed-width,
\* sign-magnitude integers: a sign and a magnitude of 256 (512) bits.  A value
\* is [neg, mag], mag the bytes of the magnitude, least significant first;
\* zero is never negative.
Int256Bytes == 32

Int512Bytes == 64

IsZero(x) == \A i \in DOMAIN x.mag : x.mag[i] = 0

\* output = -output
negate(x) == IF IsZero(x) THEN x ELSE [x EXCEPT !.neg = ~x.neg]

\* the index of the most significant non-zero byte among mag[1..i], 0 if none
RECURSIVE msb_byte(_, _)
msb_byte(mag, i) ==
    IF i = 0 THEN 0
    ELSE IF mag[i] # 0 THEN i
    ELSE msb_byte(mag, i - 1)

\* export_bits(x, out, 8): the bytes of the magnitude, most significant
\* first, without leading zero bytes; one zero byte for 0; the sign is not
\* exported
export_bits(x) ==
    LET n == msb_byte(x.mag, Len(x.mag))
    IN  IF n = 0 THEN <<0>> ELSE [i \in 1..n |-> x.mag[n + 1 - i]]

\* std::reverse(begin, end), and the range rbegin()..rend()
std_reverse(v) == [i \in 1..Len(v) |-> v[Len(v) + 1 - i]]

\* output.resize(n, 0)
resize(v, n) == [i \in 1..n |-> IF i <= Len(v) THEN v[i] ELSE 0]

\* import_bits(output, first, last) into an integer of width bytes: the
\* bytes are the magnitude, most significant first; the result is not negative
import_bits(bytes, width) ==
    [neg |-> FALSE,
     mag |-> [i \in 1..width |-> IF i <= Len(bytes) THEN bytes[Len(bytes) + 1 - i] ELSE 0]]

\* b | 0x80, b & 0x7f and b & 0x80 on a byte
or_0x80(b) == IF b >= 128 THEN b ELSE b + 128

and_0x7f(b) == b % 128

and_0x80(b) == b >= 128

IntToBytes(x, width) ==
    LET exported == export_bits(x)
        reversed == std_reverse(exported)
        padded == IF Len(reversed) < width THEN resize(reversed, width) ELSE reversed
    IN  IF Len(exported) > width THEN [threw |-> TRUE, output |-> <<>>]
        ELSE [threw |-> FALSE,
              output |-> IF x.neg THEN [padded EXCEPT ![Len(padded)] = or_0x80(padded[Len(padded)])]
                         ELSE padded]

IntToBytes256(x) == IntToBytes(x, Int256Bytes)

IntToBytes512(x) == IntToBytes(x, Int512Bytes)

BytesToInt(data, width) ==
    IF Len(data) # width THEN [threw |-> TRUE, output |-> import_bits(<<>>, width)]
    ELSE LET neg == and_0x80(data[width])
             data_copy == IF neg THEN [data EXCEPT ![width] = and_0x7f(data[width])] ELSE data
             output == import_bits(std_reverse(data_copy), width)
         IN  [threw |-> FALSE, output |-> IF neg THEN negate(output) ELSE output]

BytesToInt256(data) == BytesToInt(data, Int256Bytes)

BytesToInt512(data) == BytesToInt(data, Int512Bytes)

\* the values the round trip is tried on: magnitudes with a low byte and one
\* other byte set, of either sign
HighBytes == {0, 1, 127, 128, 255}

IntSamples(width) ==
    { x \in [neg : BOOLEAN,
             mag : { [i \in 1..width |-> IF i = 1 THEN lo ELSE IF i = pos THEN hi ELSE 0] :
                       lo \in 0..MaxLowByte, hi \in HighBytes, pos \in {2, width} }] :
        ~(x.neg /\ IsZero(x)) }

SerializationInit ==
    /\ keys = mock_carrot_keys(MaxSeed)
    /\ NoEnoteCall
    /\ additional_output = NoAdditionalOutput
    /\ proof_call = NoProofCall
    /\ \E width \in {Int256Bytes, Int512Bytes} :
           serialization \in [fn : {"pending"}, width : {width}, test : IntSamples(width)]
    /\ ecdh = NoEcdh
    /\ enote_record = NoEnoteRecord

serialization_unchanged ==
    UNCHANGED <<keys, call, normal_proposal, selfsend_proposal, enote, coinbase_enote, outputs,
                scan, set_vars, additional_output, proof_call, ecdh, frame,
                enote_record>>

\* test_int256_serialization: vec = IntToBytes256(test)
SerializeInt256 ==
    /\ serialization.fn = "pending"
    /\ serialization.width = Int256Bytes
    /\ serialization' =
           [fn |-> "serialized", width |-> Int256Bytes, test |-> serialization.test,
            vec |-> IntToBytes256(serialization.test)]
    /\ serialization_unchanged

\* test_int256_serialization: verify = BytesToInt256(vec)
DeserializeInt256 ==
    /\ serialization.fn = "serialized"
    /\ serialization.width = Int256Bytes
    /\ ~serialization.vec.threw
    /\ serialization' =
           [fn |-> "verified", width |-> Int256Bytes, test |-> serialization.test,
            vec |-> serialization.vec, verify |-> BytesToInt256(serialization.vec.output)]
    /\ serialization_unchanged

\* test_int512_serialization: vec = IntToBytes512(test)
SerializeInt512 ==
    /\ serialization.fn = "pending"
    /\ serialization.width = Int512Bytes
    /\ serialization' =
           [fn |-> "serialized", width |-> Int512Bytes, test |-> serialization.test,
            vec |-> IntToBytes512(serialization.test)]
    /\ serialization_unchanged

\* test_int512_serialization: verify = BytesToInt512(vec)
DeserializeInt512 ==
    /\ serialization.fn = "serialized"
    /\ serialization.width = Int512Bytes
    /\ ~serialization.vec.threw
    /\ serialization' =
           [fn |-> "verified", width |-> Int512Bytes, test |-> serialization.test,
            vec |-> serialization.vec, verify |-> BytesToInt512(serialization.vec.output)]
    /\ serialization_unchanged

SerializationNext ==
    \/ SerializeInt256
    \/ DeserializeInt256
    \/ SerializeInt512
    \/ DeserializeInt512

SerializationSpec == SerializationInit /\ [][SerializationNext]_vars

\* ------------------------------------------------------------------------
\* ECDH exchange (tests/unit_tests/carrot_core.cpp, ECDH_*_completeness)
\* ------------------------------------------------------------------------
\* rct::pkGen()
RandomPubkeys ==
    {addKeys(scalarmultKey(G, a), scalarmultKey(T, b)) : a, b \in 1..MaxScalar}

EcdhCall(k_view, k_ephem, spend_pubkey) ==
    [fn |-> "pending", k_view |-> k_view, k_ephem |-> k_ephem, spend_pubkey |-> spend_pubkey,
     view_pubkey |-> UnsetPoint, enote_ephemeral_pubkey |-> UnsetPoint,
     s_sr_sender |-> UnsetPoint, s_sr_receiver |-> UnsetPoint]

EcdhInit ==
    /\ keys = mock_carrot_keys(MaxSeed)
    /\ NoEnoteCall
    /\ additional_output = NoAdditionalOutput
    /\ proof_call = NoProofCall
    /\ serialization = NoSerialization
    /\ ecdh \in {EcdhCall(k_view, k_ephem, spend_pubkey) :
                    k_view, k_ephem \in 1..MaxScalar, spend_pubkey \in RandomPubkeys}
    /\ enote_record = NoEnoteRecord

ecdh_unchanged ==
    UNCHANGED <<keys, call, normal_proposal, selfsend_proposal, enote, coinbase_enote, outputs,
                scan, set_vars, additional_output, proof_call, serialization, frame,
                enote_record>>

\* TEST(carrot_core, ECDH_cryptonote_completeness); ASSERT_NE(k_view, k_ephem)
\* ends the test before anything is derived
ECDH_cryptonote_completeness ==
    /\ ecdh.fn = "pending"
    /\ IF ecdh.k_view = ecdh.k_ephem
       THEN ecdh' = [ecdh EXCEPT !.fn = "aborted"]
       ELSE LET view_pubkey == scalarmultBase(ecdh.k_view)
                enote_ephemeral_pubkey ==
                    make_carrot_enote_ephemeral_pubkey_cryptonote(ecdh.k_ephem)
            IN  ecdh' = [ecdh EXCEPT
                    !.fn = "cryptonote",
                    !.view_pubkey = view_pubkey,
                    !.enote_ephemeral_pubkey = enote_ephemeral_pubkey,
                    !.s_sr_sender =
                        make_carrot_uncontextualized_shared_key_sender(ecdh.k_ephem, view_pubkey),
                    !.s_sr_receiver =
                        make_carrot_uncontextualized_shared_key_receiver(ecdh.k_view,
                            enote_ephemeral_pubkey)]
    /\ ecdh_unchanged

\* TEST(carrot_core, ECDH_subaddress_completeness)
ECDH_subaddress_completeness ==
    /\ ecdh.fn = "pending"
    /\ IF ecdh.k_view = ecdh.k_ephem
       THEN ecdh' = [ecdh EXCEPT !.fn = "aborted"]
       ELSE LET view_pubkey == scalarmultKey(ecdh.spend_pubkey, ecdh.k_view)
                enote_ephemeral_pubkey ==
                    make_carrot_enote_ephemeral_pubkey_subaddress(ecdh.k_ephem,
                        ecdh.spend_pubkey)
            IN  ecdh' = [ecdh EXCEPT
                    !.fn = "subaddress",
                    !.view_pubkey = view_pubkey,
                    !.enote_ephemeral_pubkey = enote_ephemeral_pubkey,
                    !.s_sr_sender =
                        make_carrot_uncontextualized_shared_key_sender(ecdh.k_ephem, view_pubkey),
                    !.s_sr_receiver =
                        make_carrot_uncontextualized_shared_key_receiver(ecdh.k_view,
                            enote_ephemeral_pubkey)]
    /\ ecdh_unchanged

\* the sender's side as the constructors run it: get_normal_proposal_ecdh_parts
\* on a proposal to the main address (K_s, k_v G) or to the subaddress
\* (K_s, k_v K_s) of the view key; the receiver's side with k_v and the D_e that
\* was emitted
GetNormalProposalEcdhParts ==
    /\ ecdh.fn = "pending"
    /\ \E is_subaddress \in BOOLEAN, randomness \in 1..MaxAnchor,
          tx_first_key_image \in 1..MaxContext :
           LET view_pubkey == IF is_subaddress
                              THEN scalarmultKey(ecdh.spend_pubkey, ecdh.k_view)
                              ELSE scalarmultBase(ecdh.k_view)
               proposal == [destination |->
                                [address_spend_pubkey |-> ecdh.spend_pubkey,
                                 address_view_pubkey |-> view_pubkey,
                                 is_subaddress |-> is_subaddress,
                                 payment_id |-> null_payment_id],
                            amount |-> 0, randomness |-> randomness]
               input_context == make_carrot_input_context(tx_first_key_image)
               ecdh_parts == CHOOSE r \in {get_normal_proposal_ecdh_parts(proposal, input_context)} : TRUE
           IN  ecdh' = [ecdh EXCEPT
                   !.fn = IF is_subaddress THEN "proposal_subaddress" ELSE "proposal_main",
                   !.k_ephem = get_enote_ephemeral_privkey(proposal, input_context),
                   !.view_pubkey = view_pubkey,
                   !.enote_ephemeral_pubkey = ecdh_parts.enote_ephemeral_pubkey,
                   !.s_sr_sender = ecdh_parts.s_sender_receiver_unctx,
                   !.s_sr_receiver =
                       make_carrot_uncontextualized_shared_key_receiver(ecdh.k_view,
                           ecdh_parts.enote_ephemeral_pubkey)]
    /\ ecdh_unchanged

EcdhNext ==
    \/ ECDH_cryptonote_completeness
    \/ ECDH_subaddress_completeness
    \/ GetNormalProposalEcdhParts

EcdhSpec == EcdhInit /\ [][EcdhNext]_vars

\* ------------------------------------------------------------------------
\* The accessors of IntermediateEnoteRecordVariant (carrot_enote_types.h)
\* ------------------------------------------------------------------------
\* the seven record versions, as far as the visitors read them: V1 and V4
\* hold a legacy enote with a cleartext amount, V2, V3, V5 and V7 carry the
\* amount beside the enote, V6 and V7 hold a coinbase enote with a core
IntermediateEnoteRecordVariant(version, onetime_address, amount) ==
    CASE version \in {1, 4} ->
             [version |-> version,
              enote |-> [onetime_address |-> onetime_address, amount |-> amount]]
      [] version \in {2, 3, 5} ->
             [version |-> version, enote |-> [onetime_address |-> onetime_address],
              amount |-> amount]
      [] version = 6 ->
             [version |-> version,
              enote |-> [core |-> [onetime_address |-> onetime_address, amount |-> amount]]]
      [] version = 7 ->
             [version |-> version,
              enote |-> [core |-> [onetime_address |-> onetime_address]],
              amount |-> amount]

RecordVersions == 1..7

\* what a visitor hands back: a value of its result type
xmr_amount(amount) ==
    [type |-> "rct::xmr_amount", amount |-> amount, onetime_address |-> UnsetPoint]

public_key(onetime_address) ==
    [type |-> "crypto::public_key", amount |-> UnsetInt, onetime_address |-> onetime_address]

\* struct mierv_amount_visitor: one operator() per record version
mierv_amount_visitor(v) ==
    CASE v.version = 1 -> xmr_amount(v.enote.amount)
      [] v.version = 2 -> xmr_amount(v.amount)
      [] v.version = 3 -> xmr_amount(v.amount)
      [] v.version = 4 -> xmr_amount(v.enote.amount)
      [] v.version = 5 -> xmr_amount(v.amount)
      [] v.version = 6 -> xmr_amount(v.enote.core.amount)
      [] v.version = 7 -> xmr_amount(v.amount)

\* struct mierv_onetime_address_visitor: one operator() per record version
mierv_onetime_address_visitor(v) ==
    CASE v.version = 1 -> public_key(v.enote.onetime_address)
      [] v.version = 2 -> public_key(v.enote.onetime_address)
      [] v.version = 3 -> public_key(v.enote.onetime_address)
      [] v.version = 4 -> public_key(v.enote.onetime_address)
      [] v.version = 5 -> public_key(v.enote.onetime_address)
      [] v.version = 6 -> public_key(v.enote.core.onetime_address)
      [] v.version = 7 -> public_key(v.enote.core.onetime_address)

\* return enote_record.visit(mierv_amount_visitor());
amount_ref(record) == mierv_amount_visitor(record)

\* onetime_address_ref declares mierv_onetime_address_visitor and then ends
\* with the same line as amount_ref:
\*     return enote_record.visit(mierv_amount_visitor());
\* the visitor it declares is never used
onetime_address_ref(record) == mierv_amount_visitor(record)

NoAccessorResult == [type |-> "none", amount |-> UnsetInt, onetime_address |-> UnsetPoint]

RecordInit ==
    /\ keys = mock_carrot_keys(MaxSeed)
    /\ NoEnoteCall
    /\ additional_output = NoAdditionalOutput
    /\ proof_call = NoProofCall
    /\ serialization = NoSerialization
    /\ ecdh = NoEcdh
    /\ enote_record \in
           {[fn |-> "pending",
             record |-> IntermediateEnoteRecordVariant(version, onetime_address, amount),
             onetime_address |-> onetime_address, amount |-> amount,
             result |-> NoAccessorResult] :
                version \in RecordVersions, onetime_address \in RandomPubkeys,
                amount \in 0..MaxAmount}

record_unchanged ==
    UNCHANGED <<keys, call, normal_proposal, selfsend_proposal, enote, coinbase_enote, outputs,
                scan, set_vars, additional_output, proof_call, serialization, ecdh, frame>>

AmountRef ==
    /\ enote_record.fn = "pending"
    /\ enote_record' = [enote_record EXCEPT !.fn = "amount_ref",
                                            !.result = amount_ref(enote_record.record)]
    /\ record_unchanged

OnetimeAddressRef ==
    /\ enote_record.fn = "pending"
    /\ enote_record' = [enote_record EXCEPT !.fn = "onetime_address_ref",
                                            !.result = onetime_address_ref(enote_record.record)]
    /\ record_unchanged

RecordNext ==
    \/ AmountRef
    \/ OnetimeAddressRef

RecordSpec == RecordInit /\ [][RecordNext]_vars

\* ------------------------------------------------------------------------
\* Completing an output set: get_additional_output_proposal on a set of
\* proposals, the caller appending what it returns, and
\* get_output_enote_proposals on the completed set
\* ------------------------------------------------------------------------
\* the sets to complete: payments to the main address with a random anchor,
\* and self-sends whose D_e is fresh or the D_e of the first payment
CompletionNormalProposals ==
    [destination : MainDestinations(mock_carrot_keys(MaxSeed)), amount : {MaxAmount},
     randomness : 1..MaxAnchor]

\* D_e of the first output of the set, which a caller passes as
\* other_enote_ephemeral_pubkey, and one that no output of the set carries
OtherEphemeralPubkeys(normal, selfsend) ==
    {get_enote_ephemeral_pubkey(normal[i], make_carrot_input_context(MaxContext))
         : i \in DOMAIN normal \cap {1}}
    \cup {selfsend[i].enote_ephemeral_pubkey : i \in DOMAIN selfsend \cap {1}}
    \cup {x25519_scmul_key(1, x25519_base)}

CompletionCall(normal, selfsend, remaining_change, have_payment_type_selfsend, other_enote_ephemeral_pubkey) ==
    [fn |-> "pending", num_outgoing |-> Len(normal), num_selfsend |-> Len(selfsend),
     remaining_change |-> remaining_change,
     have_payment_type_selfsend |-> have_payment_type_selfsend,
     other_enote_ephemeral_pubkey |-> other_enote_ephemeral_pubkey,
     result |-> EmptyVariant]

CompletionInit ==
    /\ keys = mock_carrot_keys(MaxSeed)
    /\ call = NoCall
    /\ normal_proposal = NoNormalProposal
    /\ selfsend_proposal = NoSelfSendProposal
    /\ enote = UnsetEnote
    /\ coinbase_enote = UnsetCoinbaseEnote
    /\ outputs = UnsetOutputs
    /\ scan = NoScan
    /\ frame = NoFrame
    /\ output_enote_proposals_out = <<>>
    /\ encrypted_payment_id_out = UnsetInt
    /\ proof_call = NoProofCall
    /\ serialization = NoSerialization
    /\ ecdh = NoEcdh
    /\ enote_record = NoEnoteRecord
    /\ normal_payment_proposals \in SeqsUpTo(CompletionNormalProposals, MaxNormal)
    /\ selfsend_payment_proposals \in
           SeqsUpTo(SetSelfSendProposals(keys, normal_payment_proposals, MaxContext),
                    MaxSelfSend)
    /\ additional_output \in
           {CompletionCall(normal_payment_proposals, selfsend_payment_proposals,
                           remaining_change, have_payment_type_selfsend,
                           other_enote_ephemeral_pubkey) :
                remaining_change \in 0..MaxAmount, have_payment_type_selfsend \in BOOLEAN,
                other_enote_ephemeral_pubkey \in
                    OtherEphemeralPubkeys(normal_payment_proposals,
                                          selfsend_payment_proposals)}

\* get_additional_output_proposal on the counts of the set; the caller
\* appends the proposal it gets to the vector of its type
GetAdditionalOutputProposal ==
    /\ additional_output.fn = "pending"
    /\ \E x25519_pubkey_gen \in EphemeralPubkeys,
          gen_carrot_main_address_v1 \in MainDestinations(other_keys),
          gen_janus_anchor \in 1..MaxAnchor :
        LET r == get_additional_output_proposal(additional_output.num_outgoing,
                     additional_output.num_selfsend, additional_output.remaining_change,
                     additional_output.have_payment_type_selfsend,
                     keys.account_spend_pubkey,
                     additional_output.other_enote_ephemeral_pubkey,
                     x25519_pubkey_gen, gen_carrot_main_address_v1, gen_janus_anchor)
        IN  /\ additional_output' =
                   [additional_output EXCEPT !.fn = "get_additional_output_proposal",
                                             !.result = r]
            /\ normal_payment_proposals' =
                   IF r.holds = "normal" THEN Append(normal_payment_proposals, r.normal)
                   ELSE normal_payment_proposals
            /\ selfsend_payment_proposals' =
                   IF r.holds = "selfsend" THEN Append(selfsend_payment_proposals, r.selfsend)
                   ELSE selfsend_payment_proposals
    /\ UNCHANGED <<keys, call, normal_proposal, selfsend_proposal, enote, coinbase_enote,
                   outputs, scan, output_enote_proposals_out, encrypted_payment_id_out,
                   proof_call, serialization, ecdh, frame, enote_record>>

\* get_output_enote_proposals on the set as it stands after completion, with
\* both devices
GetOutputEnoteProposalsCompleted ==
    /\ additional_output.fn = "get_additional_output_proposal"
    /\ ~additional_output.result.threw
    /\ call.fn = "none"
    /\ \E r \in get_output_enote_proposals(normal_payment_proposals,
                    selfsend_payment_proposals, keys.s_view_balance, keys.k_view,
                    keys.account_spend_pubkey, MaxContext, MaxPid, MaxAnchor) :
        /\ call' = [NoCall EXCEPT !.fn = "set", !.threw = r.threw, !.crashed = r.crashed,
                                  !.tx_first_key_image = MaxContext,
                                  !.s_view_balance_dev = keys.s_view_balance,
                                  !.k_view_dev = keys.k_view]
        /\ normal_payment_proposals' = r.normal_payment_proposals
        /\ output_enote_proposals_out' = r.output_enote_proposals_out
        /\ encrypted_payment_id_out' = r.encrypted_payment_id_out
    /\ UNCHANGED <<keys, normal_proposal, selfsend_proposal, enote, coinbase_enote, outputs,
                   scan, selfsend_payment_proposals, aux_vars, frame>>

CompletionNext ==
    \/ GetAdditionalOutputProposal
    \/ GetOutputEnoteProposalsCompleted

CompletionSpec == CompletionInit /\ [][CompletionNext]_vars

\* ------------------------------------------------------------------------
\* Properties
\* ------------------------------------------------------------------------
\* the receiver's s_sr = 8 k_v D_e for the enote that was built
ReceiverSharedKey ==
    make_carrot_uncontextualized_shared_key_receiver(keys.k_view, enote.enote_ephemeral_pubkey)

\* the subaddress scalar of one of the account's spend keys (1 for the main address)
SubaddrScalarOf(spend_pubkey) ==
    IF spend_pubkey = keys.account_spend_pubkey THEN 1
    ELSE subaddress_scalar(keys,
             CHOOSE j \in SubaddressIndices : subaddress(keys, j).address_spend_pubkey = spend_pubkey)

BuiltBy(fn) == call.fn = fn /\ ~call.threw

\* C1: a normal enote to a main, subaddress or integrated address of the
\* account, scanned externally with s_sr = 8 k_v D_e and the pid_enc emitted
\* by construction, is matched, and the scan returns the destination's K^j_s,
\* the proposal's amount, the emitted amount blinding factor and PAYMENT.
C1_NormalRoundTrip ==
    ( /\ BuiltBy("normal")
      /\ normal_proposal.destination \in AccountDestinations(keys)
      /\ scan.scanner = "external"
      /\ scan.encrypted_payment_id = outputs.encrypted_payment_id )
    => /\ scan.result.matched
       /\ scan.result.address_spend_pubkey = normal_proposal.destination.address_spend_pubkey
       /\ scan.result.amount = normal_proposal.amount
       /\ scan.result.amount = outputs.amount
       /\ scan.result.amount_blinding_factor = outputs.amount_blinding_factor
       /\ scan.result.enote_type = PAYMENT

C1_Witness ==
    /\ BuiltBy("normal")
    /\ normal_proposal.destination \in SubaddressDestinations(keys)
    /\ normal_proposal.amount = MaxAmount
    /\ scan.scanner = "external"
    /\ scan.encrypted_payment_id = outputs.encrypted_payment_id
    /\ scan.result.matched

\* The core scan of the enote as the last external scan ran it.
ExternalCore ==
    try_scan_carrot_non_coinbase_no_janus(enote, scan.encrypted_payment_id,
        make_carrot_input_context(enote.tx_first_key_image), ReceiverSharedKey)

\* D_e' recomputed from the decrypted anchor, the recovered K^j_s and K^j_v,
\* the given payment id and the input context equals the enote's D_e
RecomputedEphemeralPubkeyMatches(payment_id) ==
    LET core == ExternalCore
        is_subaddress == core.address_spend_pubkey # keys.account_spend_pubkey
    IN  verify_carrot_external_janus_protection(core.nominal_janus_anchor,
            make_carrot_input_context(enote.tx_first_key_image),
            core.address_spend_pubkey,
            IF is_subaddress THEN scalarmultKey(core.address_spend_pubkey, keys.k_view)
            ELSE scalarmultBase(keys.k_view),
            is_subaddress, payment_id, enote.enote_ephemeral_pubkey)

\* the decrypted anchor is the special anchor of a self-send of this account
NominalAnchorIsSpecial ==
    ExternalCore.nominal_janus_anchor =
        make_carrot_janus_anchor_special(enote.enote_ephemeral_pubkey,
            make_carrot_input_context(enote.tx_first_key_image), enote.onetime_address,
            keys.k_view, keys.account_spend_pubkey)

BuiltOnetimeAddress ==
    IF call.fn = "coinbase" THEN coinbase_enote.onetime_address ELSE enote.onetime_address

BuiltDestinationSpendPubkey ==
    IF call.fn \in {"normal", "coinbase"} THEN normal_proposal.destination.address_spend_pubkey
    ELSE selfsend_proposal.destination_address_spend_pubkey

\* the scanner that belongs to each construction mode
ScannerFor(fn) ==
    CASE fn = "normal" -> {"external"}
      [] fn = "special" -> {"external"}
      [] fn = "internal" -> {"internal"}
      [] fn = "coinbase" -> {"coinbase"}
      [] OTHER -> {}

\* C3: whenever a scanner matches an enote built for one of the account's
\* spend keys, the recovered sender extensions open the one-time address:
\* K_o = (k_o^g + d k_gi) G + (k_o^t + d k_ps) T, d the subaddress scalar of
\* the destination (1 for the main address).
C3_Spendability ==
    ( /\ ~call.threw
      /\ scan.scanner \in ScannerFor(call.fn)
      /\ BuiltDestinationSpendPubkey \in AccountSpendPubkeys(keys)
      /\ scan.result.matched )
    => can_open_fcmp_onetime_address(keys.k_prove_spend, keys.k_generate_image,
           SubaddrScalarOf(BuiltDestinationSpendPubkey),
           scan.result.sender_extension_g, scan.result.sender_extension_t,
           BuiltOnetimeAddress)

C3_Witness ==
    /\ BuiltBy("special")
    /\ selfsend_proposal.destination_address_spend_pubkey # keys.account_spend_pubkey
    /\ SubaddrScalarOf(selfsend_proposal.destination_address_spend_pubkey) # 1
    /\ scan.scanner = "external"
    /\ scan.result.matched
    /\ scan.result.sender_extension_g # 0
    /\ scan.result.sender_extension_t # 0

\* C4: for a normal enote to an address of the account, scanned externally
\* with the emitted pid_enc, the scan reports the destination's payment id
\* (p for an integrated address, null for a main address or subaddress); and
\* an external scan that is given no pid_enc reports the null payment id.
C4_PaymentId ==
    /\ ( /\ BuiltBy("normal")
         /\ normal_proposal.destination \in AccountDestinations(keys)
         /\ scan.scanner = "external"
         /\ scan.encrypted_payment_id = outputs.encrypted_payment_id )
       => /\ scan.result.matched
          /\ scan.result.payment_id = normal_proposal.destination.payment_id
    /\ ( /\ scan.scanner = "external"
         /\ scan.encrypted_payment_id = NoPid
         /\ scan.result.matched )
       => scan.result.payment_id = null_payment_id

C4_Witness ==
    /\ BuiltBy("normal")
    /\ normal_proposal.destination \in IntegratedDestinations(keys)
    /\ normal_proposal.destination.payment_id # null_payment_id
    /\ scan.scanner = "external"
    /\ scan.encrypted_payment_id = outputs.encrypted_payment_id
    /\ outputs.encrypted_payment_id # normal_proposal.destination.payment_id
    /\ scan.result.payment_id = normal_proposal.destination.payment_id

\* C5: a special self-send enote built with the account's k_v and K_s for one
\* of the account's spend keys, with any enote type and any D_e, is matched by
\* an external scan with s_sr = 8 k_v D_e and no pid_enc, and the scan returns
\* the proposal's spend key, amount and enote type, the emitted blinding
\* factor and the null payment id.
C5_SpecialRoundTrip ==
    ( /\ BuiltBy("special")
      /\ call.primary_address_spend_pubkey = keys.account_spend_pubkey
      /\ scan.scanner = "external"
      /\ scan.encrypted_payment_id = NoPid )
    => /\ scan.result.matched
       /\ scan.result.address_spend_pubkey = selfsend_proposal.destination_address_spend_pubkey
       /\ scan.result.amount = selfsend_proposal.amount
       /\ scan.result.amount_blinding_factor = outputs.amount_blinding_factor
       /\ scan.result.payment_id = null_payment_id
       /\ scan.result.enote_type = selfsend_proposal.enote_type

C5_Witness ==
    /\ BuiltBy("special")
    /\ call.primary_address_spend_pubkey = keys.account_spend_pubkey
    /\ selfsend_proposal.enote_type = CHANGE
    /\ selfsend_proposal.destination_address_spend_pubkey # keys.account_spend_pubkey
    /\ scan.scanner = "external"
    /\ scan.encrypted_payment_id = NoPid
    /\ ~RecomputedEphemeralPubkeyMatches(null_payment_id)
    /\ scan.result.matched
    /\ scan.result.enote_type = CHANGE

\* C6: an internal self-send enote built with s_vb, with any enote type, any
\* D_e and any random anchor_enc, is matched by an internal scan with the same
\* s_vb, and the scan returns the proposal's spend key, amount and enote type
\* and the emitted blinding factor.
C6_InternalRoundTrip ==
    ( /\ BuiltBy("internal")
      /\ scan.scanner = "internal" )
    => /\ scan.result.matched
       /\ scan.result.address_spend_pubkey = selfsend_proposal.destination_address_spend_pubkey
       /\ scan.result.amount = selfsend_proposal.amount
       /\ scan.result.amount_blinding_factor = outputs.amount_blinding_factor
       /\ scan.result.enote_type = selfsend_proposal.enote_type

\* an internal enote whose random anchor_enc would not pass a Janus check
C6_Witness ==
    /\ BuiltBy("internal")
    /\ selfsend_proposal.enote_type = CHANGE
    /\ selfsend_proposal.amount = MaxAmount
    /\ scan.scanner = "internal"
    /\ scan.result.matched
    /\ scan.result.nominal_janus_anchor #
           make_carrot_janus_anchor_special(enote.enote_ephemeral_pubkey,
               make_carrot_input_context(enote.tx_first_key_image), enote.onetime_address,
               keys.k_view, keys.account_spend_pubkey)

\* C7: a coinbase enote built for the account's main address carries the
\* cleartext amount, is matched by the coinbase scan with s_sr = 8 k_v D_e,
\* which returns the account spend key, and its one-time address is the spend
\* key extended by the recovered extensions, which both sides derive from the
\* implied commitment G + a H.
C7_CoinbaseRoundTrip ==
    ( /\ BuiltBy("coinbase")
      /\ normal_proposal.destination \in MainDestinations(keys)
      /\ scan.scanner = "coinbase" )
    => /\ coinbase_enote.amount = normal_proposal.amount
       /\ coinbase_enote.block_index = call.block_index
       /\ scan.result.matched
       /\ scan.result.address_spend_pubkey = keys.account_spend_pubkey
       /\ coinbase_enote.onetime_address =
              addKeys(keys.account_spend_pubkey,
                  addKeys(scalarmultKey(G, scan.result.sender_extension_g),
                          scalarmultKey(T, scan.result.sender_extension_t)))
       /\ scan.result.sender_extension_g =
              make_carrot_onetime_address_extension_g(
                  make_carrot_sender_receiver_secret(
                      make_carrot_uncontextualized_shared_key_receiver(keys.k_view,
                          coinbase_enote.enote_ephemeral_pubkey),
                      coinbase_enote.enote_ephemeral_pubkey,
                      make_carrot_input_context_coinbase(coinbase_enote.block_index)),
                  addKeys(G, scalarmultKey(H, coinbase_enote.amount)))

C7_Witness ==
    /\ BuiltBy("coinbase")
    /\ normal_proposal.destination \in MainDestinations(keys)
    /\ normal_proposal.amount = MaxAmount
    /\ call.block_index = MaxContext
    /\ scan.scanner = "coinbase"
    /\ scan.result.matched

\* C8: get_coinbase_output_proposal_v1 throws, and writes no coinbase enote,
\* for every proposal to a subaddress or to an address with a payment id.
C8_CoinbaseRejects ==
    ( /\ call.fn = "coinbase"
      /\ \/ normal_proposal.destination.is_subaddress
         \/ normal_proposal.destination.payment_id # null_payment_id )
    => /\ call.threw
       /\ coinbase_enote = UnsetCoinbaseEnote

\* an integrated address with a valid anchor is refused
C8_Witness ==
    /\ call.fn = "coinbase"
    /\ normal_proposal.destination \in IntegratedDestinations(keys)
    /\ normal_proposal.randomness # null_anchor
    /\ call.threw
    /\ coinbase_enote = UnsetCoinbaseEnote

\* K^j_s = Ko - (k^o_g G + k^o_t T) of the coinbase enote, derived with the
\* receiver's s_sr and the implied commitment G + a H
CoinbaseRecoveredSpendPubkey ==
    LET input_context == make_carrot_input_context_coinbase(coinbase_enote.block_index)
        s_sender_receiver ==
            make_carrot_sender_receiver_secret(
                make_carrot_uncontextualized_shared_key_receiver(keys.k_view,
                    coinbase_enote.enote_ephemeral_pubkey),
                coinbase_enote.enote_ephemeral_pubkey, input_context)
    IN  recover_address_spend_pubkey(coinbase_enote.onetime_address, s_sender_receiver,
                                     zeroCommit(coinbase_enote.amount))

\* C10: the coinbase scan returns no match whenever the recovered K^j_s
\* differs from the account spend key; a coinbase enote whose one-time address
\* is built on a subaddress spend key of the account is never matched.
C10_CoinbaseMainOnly ==
    /\ ( /\ scan.scanner = "coinbase"
         /\ CoinbaseRecoveredSpendPubkey # keys.account_spend_pubkey )
       => ~scan.result.matched
    /\ ( /\ BuiltBy("coinbase")
         /\ scan.scanner = "coinbase"
         /\ normal_proposal.destination.address_spend_pubkey
                \in AccountSpendPubkeys(keys) \ {keys.account_spend_pubkey} )
       => ~scan.result.matched

\* the view tag passes, a subaddress spend key is recovered, the scan rejects
C10_Witness ==
    /\ BuiltBy("coinbase")
    /\ scan.scanner = "coinbase"
    /\ normal_proposal.destination.address_spend_pubkey
           \in AccountSpendPubkeys(keys) \ {keys.account_spend_pubkey}
    /\ scan.result.address_spend_pubkey = normal_proposal.destination.address_spend_pubkey
    /\ CoinbaseRecoveredSpendPubkey = scan.result.address_spend_pubkey
    /\ ~scan.result.matched

\* C9: no construction from a normal payment proposal with an all-zero
\* anchor produces an enote: get_output_proposal_normal_v1 and
\* get_coinbase_output_proposal_v1 throw and leave their output objects
\* unwritten, and get_output_enote_proposals throws and leaves the output
\* vector empty when one of its normal proposals has a zero anchor.
C9_ZeroAnchorRaises ==
    /\ ( /\ call.fn \in {"normal", "coinbase"}
          /\ normal_proposal.randomness = null_anchor )
       => /\ call.threw
          /\ enote = UnsetEnote
          /\ coinbase_enote = UnsetCoinbaseEnote
          /\ outputs = UnsetOutputs
    /\ ( /\ call.fn = "set"
          /\ \E i \in DOMAIN normal_payment_proposals :
                 normal_payment_proposals[i].randomness = null_anchor )
       => /\ call.threw
          /\ output_enote_proposals_out = <<>>
          /\ encrypted_payment_id_out = null_payment_id

\* a set that is well-formed but for the zero anchor of its second payment
C9_Witness ==
    /\ call.fn = "set"
    /\ Len(normal_payment_proposals) = 2
    /\ Len(selfsend_payment_proposals) = 1
    /\ normal_payment_proposals[1].randomness # null_anchor
    /\ normal_payment_proposals[2].randomness = null_anchor
    /\ normal_payment_proposals[1].destination.payment_id = null_payment_id
    /\ normal_payment_proposals[2].destination.payment_id # null_payment_id
    /\ call.s_view_balance_dev # NullDevice
    /\ call.k_view_dev # NullDevice
    /\ call.threw
    /\ output_enote_proposals_out = <<>>

\* the arguments of the call of get_additional_output_type that returned or threw
AdditionalOutputCalled == additional_output.fn = "get_additional_output_type"

num_outputs == additional_output.num_outgoing + additional_output.num_selfsend

\* the rows of the policy table apply in the order written: a set that is
\* already complete needs nothing, whatever its size
TableRow ==
    IF num_outputs = 0 THEN "FATAL"
    ELSE IF num_outputs >= 2 /\ additional_output.num_selfsend >= 1
            /\ ~additional_output.remaining_change THEN nullopt
    ELSE IF num_outputs = 1 /\ additional_output.num_selfsend = 0 THEN CHANGE_SHARED
    ELSE IF num_outputs = 1 /\ additional_output.num_selfsend = 1
            /\ ~additional_output.remaining_change THEN DUMMY
    ELSE IF num_outputs = 1 /\ additional_output.num_selfsend = 1
            /\ additional_output.remaining_change
            /\ additional_output.have_payment_type_selfsend THEN CHANGE_SHARED
    ELSE IF num_outputs = 1 /\ additional_output.num_selfsend = 1
            /\ additional_output.remaining_change
            /\ ~additional_output.have_payment_type_selfsend THEN PAYMENT_SHARED
    ELSE IF 1 < num_outputs /\ num_outputs < CARROT_MAX_TX_OUTPUTS THEN CHANGE_UNIQUE
    ELSE "FATAL"

\* C11: for every input with at least one output whose table row names a
\* result, get_additional_output_type returns exactly that result: none for a
\* complete set, CHANGE_SHARED, DUMMY, CHANGE_SHARED or PAYMENT_SHARED for the
\* one-output rows, CHANGE_UNIQUE for 1 < num_outputs < CARROT_MAX_TX_OUTPUTS
C11_PolicyTable ==
    (AdditionalOutputCalled /\ num_outputs >= 1 /\ TableRow # "FATAL")
        => additional_output.result = Returned(TableRow)

\* a one-output set with one self-send of type PAYMENT and change left over
C11_Witness ==
    /\ AdditionalOutputCalled
    /\ additional_output.num_outgoing = 0
    /\ additional_output.num_selfsend = 1
    /\ additional_output.remaining_change
    /\ additional_output.have_payment_type_selfsend
    /\ additional_output.result = Returned(CHANGE_SHARED)

SetReturned == call.fn = "set" /\ ~call.threw /\ ~call.crashed

num_proposals == Len(normal_payment_proposals) + Len(selfsend_payment_proposals)

\* the normal payment proposals with a payment id
IntegratedProposals ==
    {i \in DOMAIN normal_payment_proposals :
        normal_payment_proposals[i].destination.payment_id # null_payment_id}

\* C13: get_output_enote_proposals raises for fewer than 2 proposals, more
\* than CARROT_MAX_TX_OUTPUTS proposals, no self-send proposal, more than one
\* normal proposal with a payment id, and two normal proposals of equal
\* randomness; so a set it returns has 2 to CARROT_MAX_TX_OUTPUTS outputs, one
\* for each proposal, at least one self-send and at most one integrated address
C13_SetValidation ==
    call.fn = "set" =>
        /\ (\/ num_proposals < 2
            \/ num_proposals > CARROT_MAX_TX_OUTPUTS
            \/ Len(selfsend_payment_proposals) = 0
            \/ Cardinality(IntegratedProposals) > 1
            \/ \E i, j \in DOMAIN normal_payment_proposals :
                   i # j /\ normal_payment_proposals[i].randomness
                             = normal_payment_proposals[j].randomness)
           => call.threw /\ ~call.crashed
        /\ SetReturned =>
               /\ Len(output_enote_proposals_out) = num_proposals
               /\ Len(output_enote_proposals_out) \in 2..CARROT_MAX_TX_OUTPUTS
               /\ Len(selfsend_payment_proposals) >= 1
               /\ Cardinality(IntegratedProposals) <= 1

\* two payments to the same integrated address, with different anchors and a
\* self-send: the call raises
C13_Witness ==
    /\ call.fn = "set"
    /\ call.threw
    /\ Len(normal_payment_proposals) = 2
    /\ Len(selfsend_payment_proposals) = 1
    /\ Cardinality(IntegratedProposals) = 2
    /\ normal_payment_proposals[1].randomness # normal_payment_proposals[2].randomness
    /\ \A i \in 1..2 : normal_payment_proposals[i].randomness # null_anchor
    /\ call.k_view_dev # NullDevice

\* the D_e of the enotes in the output vector
OutputEphemeralPubkeys ==
    [i \in DOMAIN output_enote_proposals_out |->
        output_enote_proposals_out[i].enote.enote_ephemeral_pubkey]

SharedEphemeralPubkey ==
    /\ Len(output_enote_proposals_out) = 2
    /\ OutputEphemeralPubkeys[1] = OutputEphemeralPubkeys[2]

DistinctEphemeralPubkeys ==
    /\ Len(output_enote_proposals_out) > 2
    /\ \A i, j \in DOMAIN output_enote_proposals_out :
           i # j => OutputEphemeralPubkeys[i] # OutputEphemeralPubkeys[j]

\* every proposal of the call was turned into an enote
AllEnotesBuilt ==
    /\ call.fn = "set"
    /\ Len(output_enote_proposals_out) = num_proposals
    /\ \A i \in DOMAIN output_enote_proposals_out :
           output_enote_proposals_out[i] # UnsetOutputEnoteProposal

\* C14: a set that get_output_enote_proposals returns either has exactly 2
\* enotes with the same D_e or more than 2 enotes with pairwise distinct D_e;
\* when all enotes were built and neither holds, the call raised
C14_EphemeralPubkeyRule ==
    /\ SetReturned => (SharedEphemeralPubkey \/ DistinctEphemeralPubkeys)
    /\ (AllEnotesBuilt /\ ~(SharedEphemeralPubkey \/ DistinctEphemeralPubkeys)) => call.threw

\* a payment and a self-send that do not share their D_e: the call raised
C14_Witness ==
    /\ AllEnotesBuilt
    /\ call.threw
    /\ Len(normal_payment_proposals) = 1
    /\ Len(selfsend_payment_proposals) = 1
    /\ OutputEphemeralPubkeys[1] # OutputEphemeralPubkeys[2]

\* the challenge of the proof, as a scalar
ProofChallenge == sc_bytes(proof_call.proof.challenge)

\* C15: the proof that make_carrot_spend_authority_proof produces for
\* K = x G + y T has the responses z1 = r1 + c x and z2 = r2 + c y (mod L)
\* and is accepted by verify_carrot_spend_authority_proof
C15_Completeness ==
    proof_call.source = "made" =>
        /\ proof_call.fn = "made" =>
               /\ ~proof_call.threw
               /\ proof_call.proof.response_x =
                      ScalarKey(sc_muladd(ProofChallenge, sc_bytes(proof_call.x),
                                          sc_bytes(proof_call.r1)))
               /\ proof_call.proof.response_y =
                      ScalarKey(sc_muladd(ProofChallenge, sc_bytes(proof_call.y),
                                          sc_bytes(proof_call.r2)))
        /\ proof_call.fn = "verified" => proof_call.accepted

\* C16: once a proof is accepted for K, changing one of commitment_G,
\* commitment_T, challenge, response_x, response_y to a different value, or
\* verifying against a different K, makes the verification reject
C16_Original ==
    (proof_call.fn = "reverified" /\ proof_call.accepted_before) => ~proof_call.accepted

\* C17: an internal self-send enote is invisible to the incoming view key:
\* try_scan_carrot_enote_external with s_sr = 8 k_v D_e and the account's k_v
\* returns no match, for both enote types, every amount and every pid_enc
C17_InternalInvisible ==
    (BuiltBy("internal") /\ scan.scanner = "external") => ~scan.result.matched

\* an internal CHANGE enote to the main address of the account, scanned externally
C17_Witness ==
    /\ BuiltBy("internal")
    /\ scan.scanner = "external"
    /\ selfsend_proposal.enote_type = CHANGE
    /\ selfsend_proposal.destination_address_spend_pubkey = keys.account_spend_pubkey
    /\ selfsend_proposal.amount = MaxAmount
    /\ ~scan.result.matched

\* a local that held a secret and was not overwritten with zeros
Unwiped(local) == local.declared /\ local.bytes # ZeroBytes

\* C18: when get_coinbase_output_proposal_v1, get_output_proposal_normal_v1,
\* get_output_proposal_special_v1 or get_output_proposal_internal_v1 exits,
\* by return or by exception, the memory of every local that held s_sr or
\* s_ctx_sr has been overwritten with zeros
C18_Zeroized ==
    call.fn \in {"coinbase", "normal", "special", "internal"} =>
        /\ ~Unwiped(frame.s_sender_receiver_unctx)
        /\ ~Unwiped(frame.s_sender_receiver)

\* C19: for every value x of int256_t (int512_t),
\* BytesToInt256(IntToBytes256(x)) = x (BytesToInt512(IntToBytes512(x)) = x)
C19_RoundTrip ==
    serialization.fn = "verified" =>
        /\ ~serialization.verify.threw
        /\ serialization.verify.output = serialization.test

\* C20: the sender's shared secret 8 k_ephem ConvertPointE(K^j_v) equals the
\* receiver's 8 k_v D_e, for a main address (K_v = k_v G, D_e = k_ephem B) and
\* for a subaddress (K^j_v = k_v K^j_s, D_e = k_ephem ConvertPointE(K^j_s)),
\* in the two exchanges of the tests and for the parts that
\* get_normal_proposal_ecdh_parts derives
C20_EcdhCompleteness ==
    ecdh.fn \in {"cryptonote", "subaddress", "proposal_main", "proposal_subaddress"} =>
        /\ ecdh.s_sr_sender = ecdh.s_sr_receiver
        /\ ecdh.view_pubkey =
               IF ecdh.fn \in {"cryptonote", "proposal_main"} THEN scalarmultBase(ecdh.k_view)
               ELSE scalarmultKey(ecdh.spend_pubkey, ecdh.k_view)
        /\ ecdh.enote_ephemeral_pubkey =
               IF ecdh.fn \in {"cryptonote", "proposal_main"}
               THEN x25519_scmul_key(ecdh.k_ephem, x25519_base)
               ELSE x25519_scmul_key(ecdh.k_ephem, ConvertPointE(ecdh.spend_pubkey))

\* a subaddress exchange through get_normal_proposal_ecdh_parts whose D_e is
\* not the main-address one and whose secret is not a public key of the exchange
C20_Witness ==
    /\ ecdh.fn = "proposal_subaddress"
    /\ ecdh.k_view = MaxScalar
    /\ ecdh.enote_ephemeral_pubkey # x25519_scmul_key(ecdh.k_ephem, x25519_base)
    /\ ecdh.s_sr_sender = ecdh.s_sr_receiver
    /\ ecdh.s_sr_sender \notin {Identity, ecdh.enote_ephemeral_pubkey,
                                ConvertPointE(ecdh.view_pubkey)}

\* the bool that a scanner returns
ReturnValue(result) == result.matched

\* the external scan got through the core scan and verify_carrot_janus_protection
\* returned false
JanusFailure ==
    /\ scan.scanner = "external"
    /\ ExternalCore.matched
    /\ ~verify_carrot_janus_protection(make_carrot_input_context(enote.tx_first_key_image),
            enote.onetime_address, keys.k_view, keys.account_spend_pubkey,
            ExternalCore.address_spend_pubkey, enote.enote_ephemeral_pubkey,
            ExternalCore.nominal_janus_anchor, ExternalCore.payment_id).ok

\* the core scan returned false: the view tag or the amount commitment did not fit
ScanMiss ==
    /\ scan.scanner = "external"
    /\ ~ExternalCore.matched

ViewTagDiffers ==
    CASE scan.scanner = "external" ->
             ~test_carrot_view_tag(ReceiverSharedKey,
                  make_carrot_input_context(enote.tx_first_key_image),
                  enote.onetime_address, enote.view_tag)
      [] scan.scanner = "internal" ->
             ~test_carrot_view_tag(to_bytes(keys.s_view_balance),
                  make_carrot_input_context(enote.tx_first_key_image),
                  enote.onetime_address, enote.view_tag)
      [] scan.scanner = "coinbase" ->
             ~test_carrot_view_tag(
                  make_carrot_uncontextualized_shared_key_receiver(keys.k_view,
                      coinbase_enote.enote_ephemeral_pubkey),
                  make_carrot_input_context_coinbase(coinbase_enote.block_index),
                  coinbase_enote.onetime_address, coinbase_enote.view_tag)
      [] OTHER -> FALSE

\* C22: each of the three scanners, given an enote whose view tag differs
\* from the recomputed one, returns false and leaves every output parameter
\* as the caller passed it: nothing derived from s^ctx_sr has been written
C22_ViewTagFirst ==
    ViewTagDiffers =>
        /\ ~scan.result.matched
        /\ scan.result = UnsetScan

\* an enote of another account, dropped by the coinbase scan at the view tag
C22_Witness ==
    /\ BuiltBy("coinbase")
    /\ scan.scanner = "coinbase"
    /\ ViewTagDiffers
    /\ normal_proposal.destination \in MainDestinations(other_keys)
    /\ scan.result = UnsetScan

\* the pid_enc that get_output_proposal_normal_v1 emits for the i-th normal
\* payment proposal of the call
ProposalEncryptedPaymentId(i) ==
    get_output_proposal_normal_v1(normal_payment_proposals[i],
        call.tx_first_key_image).outputs.encrypted_payment_id

\* C23: a set that get_output_enote_proposals returns publishes the pid_enc
\* of its one integrated proposal, or of its only normal proposal, or, with
\* two or more normal proposals and no integrated one, the value that
\* gen_payment_id() returned (MaxPid in GetOutputEnoteProposals)
C23_PublishedPaymentId ==
    SetReturned =>
        /\ Cardinality(IntegratedProposals) = 1 =>
               \A i \in IntegratedProposals :
                   encrypted_payment_id_out = ProposalEncryptedPaymentId(i)
        /\ (Len(normal_payment_proposals) = 1 /\ IntegratedProposals = {}) =>
               encrypted_payment_id_out = ProposalEncryptedPaymentId(1)
        /\ (Len(normal_payment_proposals) >= 2 /\ IntegratedProposals = {}) =>
               encrypted_payment_id_out = MaxPid

\* the integrated proposal is processed first and a plain one after it, and
\* the published pid_enc is the integrated one's
C23_Witness ==
    /\ SetReturned
    /\ Len(normal_payment_proposals) = 2
    /\ \E i, j \in 1..2 :
           /\ IntegratedProposals = {i}
           /\ j # i
           /\ normal_payment_proposals[i].randomness < normal_payment_proposals[j].randomness
           /\ ProposalEncryptedPaymentId(i) # ProposalEncryptedPaymentId(j)
           /\ encrypted_payment_id_out = ProposalEncryptedPaymentId(i)

\* b[1], b[2], ... do not decrease in memcmp order
NonDecreasing(b) == \A i \in 1..(Len(b) - 1) : ~PointLess(b[i + 1], b[i])

\* the call threw in the loop over the self-send proposals, before the first
\* of them was built: the output vector holds the normal enotes as processed
ThrewAfterNormalEnotes ==
    /\ call.fn = "set"
    /\ call.threw
    /\ Len(normal_payment_proposals) > 0
    /\ Len(output_enote_proposals_out) = Len(normal_payment_proposals)
    /\ Len(selfsend_payment_proposals) > 0

\* C24: a returned set is in non-decreasing order of Ko, whatever the order
\* of its D_e; the normal proposals were sorted by randomness before they
\* were processed, and their enotes were built in that order
C24_Ordering ==
    /\ SetReturned =>
           /\ NonDecreasing(sort_by_onetime_address(output_enote_proposals_out))
           /\ NonDecreasing(sort_by_randomness(normal_payment_proposals))
    /\ ThrewAfterNormalEnotes =>
           /\ NonDecreasing(sort_by_randomness(normal_payment_proposals))
           /\ \A i \in DOMAIN normal_payment_proposals :
                  output_enote_proposals_out[i] =
                      OutputEnoteProposal(get_output_proposal_normal_v1(
                          normal_payment_proposals[i], call.tx_first_key_image))

\* a returned set of three enotes in the order of their Ko, which is not
\* the order of their D_e
C24_Witness ==
    /\ SetReturned
    /\ Len(output_enote_proposals_out) = 3
    /\ Len(normal_payment_proposals) = 2
    /\ NonDecreasing(sort_by_onetime_address(output_enote_proposals_out))
    /\ ~NonDecreasing(sort_by_ephemeral_pubkey(output_enote_proposals_out))

\* every self-send proposal of the call has its internal enote, built with
\* s_vb, in the output vector
SelfSendsBuiltInternal ==
    \A i \in DOMAIN selfsend_payment_proposals :
        \E j \in DOMAIN output_enote_proposals_out :
            output_enote_proposals_out[j] =
                OutputEnoteProposal(get_output_proposal_internal_v1(selfsend_payment_proposals[i],
                    call.s_view_balance_dev, call.tx_first_key_image, MaxAnchor))

\* every self-send proposal of the call has its special enote, built with
\* k_v, in the output vector
SelfSendsBuiltSpecial ==
    \A i \in DOMAIN selfsend_payment_proposals :
        \E j \in DOMAIN output_enote_proposals_out :
            output_enote_proposals_out[j] =
                OutputEnoteProposal(get_output_proposal_special_v1(selfsend_payment_proposals[i],
                    call.k_view_dev, keys.account_spend_pubkey, call.tx_first_key_image))

\* the call got past the checks on the proposals
ProposalsValid ==
    /\ num_proposals \in CARROT_MIN_TX_OUTPUTS..CARROT_MAX_TX_OUTPUTS
    /\ Len(selfsend_payment_proposals) >= 1
    /\ Cardinality(IntegratedProposals) <= 1
    /\ \A i \in DOMAIN normal_payment_proposals :
           normal_payment_proposals[i].randomness # null_anchor
    /\ \A i, j \in DOMAIN normal_payment_proposals :
           i # j => normal_payment_proposals[i].randomness # normal_payment_proposals[j].randomness

\* C25: get_output_enote_proposals builds every self-send enote as an
\* internal one when a view-balance device is given, as a special one with k_v
\* when only a view-incoming device is given, and raises when neither is
\* given and the set has a self-send proposal
C25_SelfSendDevice ==
    /\ (SetReturned /\ call.s_view_balance_dev # NullDevice) => SelfSendsBuiltInternal
    /\ (SetReturned /\ call.s_view_balance_dev = NullDevice /\ call.k_view_dev # NullDevice)
           => SelfSendsBuiltSpecial
    /\ ( /\ call.fn = "set"
         /\ call.s_view_balance_dev = NullDevice
         /\ call.k_view_dev = NullDevice
         /\ Len(selfsend_payment_proposals) >= 1 )
       => call.threw

\* C26: a special or internal self-send enote carries the D_e of its proposal
\* unchanged; for a special one the secret used at construction is 8 k_v D_e
\* for the D_e of the enote: the view tag and the one-time address of the
\* enote are the ones that the secret a receiver computes from the enote gives
C26_SelfSendEphemeralPubkey ==
    /\ (BuiltBy("special") \/ BuiltBy("internal")) =>
           enote.enote_ephemeral_pubkey = selfsend_proposal.enote_ephemeral_pubkey
    /\ BuiltBy("special") =>
           /\ enote.view_tag =
                  make_carrot_view_tag(ReceiverSharedKey,
                      make_carrot_input_context(enote.tx_first_key_image),
                      enote.onetime_address)
           /\ enote.onetime_address =
                  make_carrot_onetime_address(
                      selfsend_proposal.destination_address_spend_pubkey,
                      make_carrot_sender_receiver_secret(ReceiverSharedKey,
                          enote.enote_ephemeral_pubkey,
                          make_carrot_input_context(enote.tx_first_key_image)),
                      enote.amount_commitment)

\* a special self-send whose D_e is not k_v B, matched by the external scan
C26_Witness ==
    /\ BuiltBy("special")
    /\ selfsend_proposal.enote_ephemeral_pubkey
           # make_carrot_enote_ephemeral_pubkey_cryptonote(keys.k_view)
    /\ enote.enote_ephemeral_pubkey = selfsend_proposal.enote_ephemeral_pubkey
    /\ scan.scanner = "external"
    /\ scan.result.matched

\* C27: for every record version V1..V7, onetime_address_ref returns the
\* one-time address of the enote the record holds and amount_ref returns the
\* record's amount, each through its own visitor
C27_Accessors ==
    /\ enote_record.fn = "amount_ref" =>
           enote_record.result = xmr_amount(enote_record.amount)
    /\ enote_record.fn = "onetime_address_ref" =>
           /\ enote_record.result = public_key(enote_record.onetime_address)
           /\ enote_record.result = mierv_onetime_address_visitor(enote_record.record)

\* amount_ref alone does what the claim says
C27_AmountRef ==
    enote_record.fn = "amount_ref" => enote_record.result = xmr_amount(enote_record.amount)

\* the set had 1 <= num_outputs < CARROT_MAX_TX_OUTPUTS outputs and
\* get_additional_output_proposal returned a proposal, which was appended
SetCompleted ==
    /\ additional_output.fn = "get_additional_output_proposal"
    /\ additional_output.num_outgoing + additional_output.num_selfsend >= 1
    /\ additional_output.num_outgoing + additional_output.num_selfsend < CARROT_MAX_TX_OUTPUTS
    /\ additional_output.result.holds # "none"

\* the type get_additional_output_type gave for the set before completion
CompletionType ==
    get_additional_output_type(additional_output.num_outgoing, additional_output.num_selfsend,
        additional_output.remaining_change # 0,
        additional_output.have_payment_type_selfsend).value

\* the change that the appended proposal does not carry
ChangeLeft ==
    additional_output.remaining_change
        - (IF additional_output.result.holds = "selfsend"
           THEN additional_output.result.selfsend.amount ELSE 0)

\* C28: completing a set takes exactly one additional output: a self-send
\* carrying the whole remaining change (PAYMENT_SHARED, CHANGE_SHARED,
\* CHANGE_UNIQUE) or a zero-amount normal output (DUMMY); afterwards no change
\* remains, get_additional_output_type returns none, and the set has 2 to
\* CARROT_MAX_TX_OUTPUTS outputs with at least one self-send
C28_OneAdditionalOutput ==
    SetCompleted =>
        LET num_outgoing == Len(normal_payment_proposals)
            num_selfsend == Len(selfsend_payment_proposals)
            have_payment_type_selfsend ==
                \/ additional_output.have_payment_type_selfsend
                \/ /\ additional_output.result.holds = "selfsend"
                   /\ additional_output.result.selfsend.enote_type = PAYMENT
        IN  /\ num_outgoing + num_selfsend
                   = additional_output.num_outgoing + additional_output.num_selfsend + 1
            /\ IF CompletionType = DUMMY
               THEN /\ additional_output.result.holds = "normal"
                    /\ additional_output.result.normal.amount = 0
                    /\ num_outgoing = additional_output.num_outgoing + 1
               ELSE /\ additional_output.result.holds = "selfsend"
                    /\ additional_output.result.selfsend.amount
                           = additional_output.remaining_change
                    /\ num_selfsend = additional_output.num_selfsend + 1
            /\ ChangeLeft = 0
            /\ get_additional_output_type(num_outgoing, num_selfsend, ChangeLeft # 0,
                                          have_payment_type_selfsend) = Returned(nullopt)
            /\ num_outgoing + num_selfsend >= 2
            /\ num_outgoing + num_selfsend <= CARROT_MAX_TX_OUTPUTS
            /\ num_selfsend >= 1

\* a set of two payments with change left was completed by a third output
C28_Witness ==
    /\ SetCompleted
    /\ CompletionType = CHANGE_UNIQUE
    /\ additional_output.remaining_change = MaxAmount
    /\ Len(selfsend_payment_proposals) = 1
    /\ selfsend_payment_proposals[1].amount = MaxAmount

\* D_e of every proposal of the set: the payments, then the self-sends
SetEphemeralPubkeys ==
    [i \in 1..Len(normal_payment_proposals) |->
        get_enote_ephemeral_pubkey(normal_payment_proposals[i],
                                   make_carrot_input_context(MaxContext))]
    \o [i \in 1..Len(selfsend_payment_proposals) |->
           selfsend_payment_proposals[i].enote_ephemeral_pubkey]

\* where the appended proposal stands in SetEphemeralPubkeys
AppendedIndex ==
    IF additional_output.result.holds = "selfsend" THEN Len(SetEphemeralPubkeys)
    ELSE CHOOSE i \in 1..Len(normal_payment_proposals) :
             normal_payment_proposals[i] = additional_output.result.normal

ExistingIndices == DOMAIN SetEphemeralPubkeys \ {AppendedIndex}

\* the outputs the set had carry pairwise-distinct D_e, the caller passed the
\* D_e of the only output when there was one, and x25519_pubkey_gen() gave a
\* key that no output carries
CompletionPrecondition ==
    /\ SetCompleted
    /\ \A i, j \in ExistingIndices :
           i # j => SetEphemeralPubkeys[i] # SetEphemeralPubkeys[j]
    /\ \A i \in ExistingIndices :
           Cardinality(ExistingIndices) = 1 =>
               additional_output.other_enote_ephemeral_pubkey = SetEphemeralPubkeys[i]
    /\ CompletionType = CHANGE_UNIQUE =>
           \A i \in ExistingIndices :
               SetEphemeralPubkeys[i] # SetEphemeralPubkeys[AppendedIndex]

\* get_output_enote_proposals threw after it had built every enote: at the
\* D_e rule
ThrewAtEphemeralPubkeyRule ==
    /\ call.fn = "set"
    /\ call.threw
    /\ Len(output_enote_proposals_out) = Len(SetEphemeralPubkeys)

EphemeralPubkeyRule ==
    /\ Len(SetEphemeralPubkeys) = 2 => SetEphemeralPubkeys[1] = SetEphemeralPubkeys[2]
    /\ Len(SetEphemeralPubkeys) > 2 =>
           \A i, j \in DOMAIN SetEphemeralPubkeys :
               i # j => SetEphemeralPubkeys[i] # SetEphemeralPubkeys[j]
    /\ ~ThrewAtEphemeralPubkeyRule

\* C29: a set completed with the proposal of get_additional_output_proposal
\* passes the D_e rule of get_output_enote_proposals: a completed 2-output set
\* (CHANGE_SHARED, PAYMENT_SHARED or DUMMY) shares one D_e, a completed set of
\* more than 2 outputs (CHANGE_UNIQUE) has pairwise-distinct D_e
C29_CompletedSetEphemeralPubkeys ==
    CompletionPrecondition => EphemeralPubkeyRule

\* the same for the three self-send types only
C29_SelfSendCompletion ==
    CompletionPrecondition /\ CompletionType # DUMMY => EphemeralPubkeyRule

\* the claim as stated: whenever get_output_enote_proposals raises, the output
\* vector is empty and the published payment id is null
C30_Original ==
    call.fn = "set" /\ call.threw =>
        /\ output_enote_proposals_out = <<>>
        /\ encrypted_payment_id_out = null_payment_id

\* neither device was passed
NoDevice == call.s_view_balance_dev = NullDevice /\ call.k_view_dev = NullDevice

\* C30: when get_output_enote_proposals raises at a check on the proposals
\* (counts, integrated addresses, anchors, randomness) the outputs are empty
\* and the payment id null; when it raises for a missing device the output
\* vector holds the enotes of the normal proposals, in their order; when it
\* raises at the rule on D_e the output vector holds every enote of the
\* rule-violating set, sorted by D_e
C30_FailureOutputs ==
    call.fn = "set" /\ call.threw =>
        IF ~ProposalsValid
        THEN /\ output_enote_proposals_out = <<>>
             /\ encrypted_payment_id_out = null_payment_id
        ELSE IF NoDevice
        THEN /\ Len(output_enote_proposals_out) = Len(normal_payment_proposals)
             /\ \A i \in DOMAIN normal_payment_proposals :
                    output_enote_proposals_out[i].enote.enote_ephemeral_pubkey
                        = get_enote_ephemeral_pubkey(normal_payment_proposals[i],
                              make_carrot_input_context(call.tx_first_key_image))
             /\ Len(normal_payment_proposals) = 0 =>
                    encrypted_payment_id_out = null_payment_id
        ELSE /\ Len(output_enote_proposals_out) = num_proposals
             /\ NonDecreasing(sort_by_ephemeral_pubkey(output_enote_proposals_out))
             /\ IF num_proposals = 2
                THEN output_enote_proposals_out[1].enote.enote_ephemeral_pubkey
                         # output_enote_proposals_out[2].enote.enote_ephemeral_pubkey
                ELSE \E i, j \in DOMAIN output_enote_proposals_out :
                         /\ i # j
                         /\ output_enote_proposals_out[i].enote.enote_ephemeral_pubkey
                                = output_enote_proposals_out[j].enote.enote_ephemeral_pubkey

\* a set of two outputs that do not share their D_e was refused, and both
\* enotes are in the output vector
C30_Witness ==
    /\ call.fn = "set"
    /\ call.threw
    /\ ProposalsValid
    /\ ~NoDevice
    /\ num_proposals = 2
    /\ Len(output_enote_proposals_out) = 2

====
